---- MODULE Spec2Model ----
(***************************************************************************)
(* Verification model of the Square-Gif-Recorder frame-reduction and       *)
(* encoding pipeline (src/utils/gif_saver.py) and of its callers.          *)
(*                                                                         *)
(* Units: floating-point fractions in [0,1] that are user inputs are kept  *)
(* as integers: scale_factor in percent, similarity_threshold and the      *)
(* similarity scores in thousandths (Scale).  An Optional[X] of the source *)
(* is the empty sequence << >> for None and <<x>> for a value.             *)
(***************************************************************************)
EXTENDS Integers, Sequences, FiniteSets, TLC

(***************************************************************************)
(* Bounds of the model                                                     *)
(***************************************************************************)
\* fps values offered to the constructor are 0..MaxFps
MaxFps == 4
\* skip_value (stride) values offered to the constructor are 0..MaxSkip
MaxSkip == 3

(***************************************************************************)
(* Small helpers                                                           *)
(***************************************************************************)
Max(a, b) == IF a >= b THEN a ELSE b
Min(a, b) == IF a <= b THEN a ELSE b
Abs(a) == IF a >= 0 THEN a ELSE -a

RECURSIVE BitLen(_)
\* number of binary digits of a natural number (0 for 0)
BitLen(n) == IF n = 0 THEN 0 ELSE 1 + BitLen(n \div 2)

(***************************************************************************)
(* State                                                                   *)
(***************************************************************************)
VARIABLES
    gsObj,      \* the GifSettings object under construction/use: << >> or <<settings>>
    gsErr,      \* message of the ValueError raised by the last GifSettings(...) call, "" if none
    gsProp,     \* last property read from gsObj: << >> or <<name, value>>
    numpy,      \* whether "import numpy" succeeds in this installation
    det,        \* the FrameSimilarityDetector object: << >> or <<detector>>
    dcall,      \* last is_similar_to_previous call on det: << >> or <<call record>>
    pc,         \* position of the save in progress
    svArgs,     \* settings arguments of the save: << >> or <<arguments>>
    progress_callback,  \* the progress_callback argument of the save: << >> or <<callback>>
    frames,     \* the frame list handed to the save
    filename,   \* the name chosen in the file dialog: << >> or <<name>>
    pm,         \* the ProgressManager: << >> or <<fields>>
    dialog,     \* the QProgressDialog: << >> or <<fields>>
    idx,        \* loop index i of _process_frames
    processed_images,   \* the frames kept so far
    skipped_count,      \* the frames skipped as similar so far
    converted,  \* number of frames handed to qimage_to_pil so far
    procRet,    \* value returned by _process_frames: << >> (None) or <<list>>
    cbLog,      \* the values passed to the progress callback, in order
    status,     \* the main window's status label
    encoder,    \* the Image.save calls made, in order
    file,       \* the output file: << >> (absent) or <<content>>
    ret,        \* whether save_gif_from_frames has returned, and its value
    msgs,       \* the message boxes shown, in order
    why,        \* the branch on which the save ended
    reqAt,      \* first cancel request: << >> or <<[converted, phase]>>
    obsAt,      \* loop index at the test that first saw the cancel: << >> or <<i>>
    mwFrames,   \* GifRecorderMainWindow.frames, the frame buffer
    rangeSlider,    \* the preview's RangeSlider: minimum, maximum, start_value, end_value
    pvFrames,   \* PreviewWidget.frames, the preview's copy of the buffer
    saveReq,    \* outcome of the last save click: << >> or <<record>>
    mode,       \* RecordingManager._mode
    fbf,        \* RecordingManager._frame_by_frame_mode
    timer,      \* RecordingManager.timer: << >> (None) or <<RecordingTimer fields>>
    pendingFrames,  \* frame_captured signals queued for the main thread, in order
    shots,      \* pending QTimer.singleShot callbacks, by name
    nextId,     \* number of screen grabs made so far
    rcall,      \* last RecordingManager call: << >> or <<[op, rect, ret]>>
    mainPc,     \* position of the main thread inside a RecordingManager method
    question,   \* the QMessageBox.question of clear_frames while it is open: << >> or <<[from]>>
    running_processes,  \* CMDExecuter.running_processes: execution id -> << >> (absent) or <<process>>
    lock,       \* CMDExecuter._lock, a threading.Lock: << >> (free) or <<the thread holding it>>
    processes,  \* the processes spawned by Popen so far, in order
    callers,    \* the threads calling CMDExecuter methods, each with its position
    returned    \* the last return of a CMDExecuter method: << >> or <<[thread, op, ..., value]>>

settingsVars == <<gsObj, gsErr, gsProp>>
detVars == <<numpy, det, dcall>>
inputsV == <<svArgs, frames, progress_callback>>
loopV == <<idx, processed_images, skipped_count, converted, procRet>>
uiV == <<pm, dialog, cbLog, status>>
outV == <<encoder, file, ret, msgs, why>>
ghostV == <<reqAt, obsAt>>
saveVars == <<pc, inputsV, filename, loopV, uiV, outV, ghostV>>
selVars == <<rangeSlider, saveReq>>
recVars == <<mode, fbf, timer, pendingFrames, shots, nextId, rcall, mainPc, question>>
appVars == <<mwFrames, pvFrames, selVars, recVars>>
cmdVars == <<running_processes, lock, processes, callers, returned>>
vars == <<settingsVars, detVars, saveVars, appVars, cmdVars>>

(***************************************************************************)
(* GifSettings  (src/utils/gif_saver.py:24-84)                             *)
(***************************************************************************)
\* GifSettings dataclass fields.  scale_factor is in percent and
\* similarity_threshold in thousandths.
GifSettings(fps, scale, colors, dither, skip, lossy, disposal, threshold, simskip) ==
    [fps |-> fps, scale_factor |-> scale, num_colors |-> colors,
     use_dithering |-> dither, skip_value |-> skip, lossy_level |-> lossy,
     disposal_method |-> disposal, similarity_threshold |-> threshold,
     enable_similarity_skip |-> simskip]

\* variant: a _validate without the similarity_threshold test
GifSettings_validate_nothreshold(s) ==
    IF s.fps <= 0 THEN "FPS must be positive"
    ELSE IF ~(0 < s.scale_factor /\ s.scale_factor <= 100)
        THEN "Scale factor must be between 0 and 1"
    ELSE IF s.num_colors < 2 \/ s.num_colors > 256
        THEN "Number of colors must be between 2 and 256"
    ELSE IF s.skip_value < 1 THEN "Skip value must be at least 1"
    ELSE IF ~(0 <= s.lossy_level /\ s.lossy_level <= 10)
        THEN "Lossy level must be between 0 and 10"
    ELSE IF ~(0 <= s.disposal_method /\ s.disposal_method <= 3)
        THEN "Disposal method must be between 0 and 3"
    ELSE ""

\* GifSettings._validate: the message of the first ValueError raised, "" when
\* every field is accepted.  The order of the tests is the order of the code.
GifSettings_validate(s) ==
    IF s.fps <= 0 THEN "FPS must be positive"
    ELSE IF ~(0 < s.scale_factor /\ s.scale_factor <= 100)
        THEN "Scale factor must be between 0 and 1"
    ELSE IF s.num_colors < 2 \/ s.num_colors > 256
        THEN "Number of colors must be between 2 and 256"
    ELSE IF s.skip_value < 1 THEN "Skip value must be at least 1"
    ELSE IF ~(0 <= s.lossy_level /\ s.lossy_level <= 10)
        THEN "Lossy level must be between 0 and 10"
    ELSE IF ~(0 <= s.disposal_method /\ s.disposal_method <= 3)
        THEN "Disposal method must be between 0 and 3"
    ELSE IF ~(0 <= s.similarity_threshold /\ s.similarity_threshold <= 1000)
        THEN "Similarity threshold must be between 0 and 1"
    ELSE ""

(***************************************************************************)
(* IEEE-754 double arithmetic of effective_num_colors.                     *)
(* A positive double is mant * 2^(-sh) with a 53-bit mantissa, kept as     *)
(* three 20-bit limbs m2:m1:m0 so that every product fits a 32-bit int.    *)
(***************************************************************************)
LimbBase == 2^20

\* reduction_factor = 1 - (lossy_level / 10.0) as Python evaluates it in
\* doubles, for lossy_level 1..9 (float.hex of each value in the comment).
ReductionFactor(l) ==
    CASE l = 1 -> [m2 |-> 7372, m1 |-> 838860, m0 |-> 838861, sh |-> 53] \* 0x1.ccccccccccccdp-1
      [] l = 2 -> [m2 |-> 6553, m1 |-> 629145, m0 |-> 629146, sh |-> 53] \* 0x1.999999999999ap-1
      [] l = 3 -> [m2 |-> 5734, m1 |-> 419430, m0 |-> 419430, sh |-> 53] \* 0x1.6666666666666p-1
      [] l = 4 -> [m2 |-> 4915, m1 |-> 209715, m0 |-> 209715, sh |-> 53] \* 0x1.3333333333333p-1
      [] l = 5 -> [m2 |-> 4096, m1 |-> 0,      m0 |-> 0,      sh |-> 53] \* 0x1.0000000000000p-1
      [] l = 6 -> [m2 |-> 6553, m1 |-> 629145, m0 |-> 629146, sh |-> 54] \* 0x1.999999999999ap-2
      [] l = 7 -> [m2 |-> 4915, m1 |-> 209715, m0 |-> 209716, sh |-> 54] \* 0x1.3333333333334p-2
      [] l = 8 -> [m2 |-> 6553, m1 |-> 629145, m0 |-> 629144, sh |-> 55] \* 0x1.9999999999998p-3
      [] l = 9 -> [m2 |-> 6553, m1 |-> 629145, m0 |-> 629144, sh |-> 56] \* 0x1.9999999999998p-4

\* int(n * f) for an integer 1 <= n <= 256 and a double 0 < f < 1: the exact
\* product n*mant is rounded to 53 significant bits (round half to even) and
\* the integer part of the rounded value is taken.
IntOfProduct(n, f) ==
    LET p0raw == n * f.m0
        p0    == p0raw % LimbBase
        p1raw == n * f.m1 + (p0raw \div LimbBase)
        p1    == p1raw % LimbBase
        p2    == n * f.m2 + (p1raw \div LimbBase)
        r     == (40 + BitLen(p2)) - 53          \* bits dropped by the rounding
        low   == p0 % (2^r)
        keep  == p0 \div (2^r)
        up    == /\ r > 0
                 /\ \/ 2 * low > 2^r
                    \/ 2 * low = 2^r /\ keep % 2 = 1
        fbits == f.sh - 40                       \* fraction bits held in p2
        whole == p2 \div (2^fbits)
        ones  == /\ p2 % (2^fbits) = 2^fbits - 1
                 /\ p1 = LimbBase - 1
                 /\ keep = 2^(20 - r) - 1
    IN  IF up /\ ones THEN whole + 1 ELSE whole

\* GifSettings.effective_num_colors with the clamp at 2 left out
effective_num_colors_noclamp(s) ==
    IF s.lossy_level = 0 THEN s.num_colors
    ELSE IF s.lossy_level = 10 THEN 0
    ELSE IntOfProduct(s.num_colors, ReductionFactor(s.lossy_level))

\* GifSettings.effective_num_colors computed in exact arithmetic
effective_num_colors_exact(s) ==
    IF s.lossy_level = 0 THEN s.num_colors
    ELSE Max(2, (s.num_colors * (10 - s.lossy_level)) \div 10)

\* GifSettings.effective_num_colors
effective_num_colors(s) ==
    IF s.lossy_level = 0 THEN s.num_colors
    ELSE IF s.lossy_level = 10 THEN Max(2, 0)      \* 1 - 10/10.0 = 0.0
    ELSE Max(2, IntOfProduct(s.num_colors, ReductionFactor(s.lossy_level)))

\* variant: a duration that ignores the stride
frame_duration_ms_nostride(s) == 1000 \div s.fps

\* GifSettings.frame_duration_ms.  1000/fps is a correctly rounded double
\* quotient of two integers; a non-integral quotient lies at least 1/fps from
\* the next integer, so int() of it is the integer quotient.
frame_duration_ms(s) == (1000 \div s.fps) * s.skip_value

(***************************************************************************)
(* Constructor arguments offered to GifSettings(...)                       *)
(***************************************************************************)
DefaultSettings == GifSettings(10, 100, 256, TRUE, 1, 0, 0, 950, TRUE)

\* every palette size with every lossy level, one step outside the ranges
PaletteArgs ==
    { [DefaultSettings EXCEPT !.num_colors = n, !.lossy_level = l] :
        n \in 1..257, l \in -1..11 }

\* frame rates and strides
TimingArgs ==
    { [DefaultSettings EXCEPT !.fps = f, !.skip_value = k] :
        f \in 0..MaxFps, k \in 0..MaxSkip }

\* each remaining field at and beyond both ends of its range, in combination
RangeArgs ==
    { [DefaultSettings EXCEPT !.scale_factor = sc, !.disposal_method = d,
                              !.similarity_threshold = t, !.fps = f,
                              !.enable_similarity_skip = e] :
        sc \in {0, 1, 50, 100, 150}, d \in {-1, 0, 3, 4},
        t \in {-1, 0, 950, 1000, 1001}, f \in {0, 10}, e \in BOOLEAN }

GifArgs == PaletteArgs \cup TimingArgs \cup RangeArgs

(***************************************************************************)
(* Actions on GifSettings                                                  *)
(***************************************************************************)
\* GifSettings(...): __post_init__ runs _validate; a ValueError leaves no object.
\* One settings object is alive at a time (it is built once per save).
GifSettings_new ==
    \E a \in GifArgs :
        /\ gsObj = << >>
        /\ gsErr' = GifSettings_validate(a)
        /\ gsObj' = IF GifSettings_validate(a) = "" THEN <<a>> ELSE << >>
        /\ gsProp' = << >>
        /\ UNCHANGED <<detVars, saveVars, appVars, cmdVars>>

\* reading the effective_num_colors property
GifSettings_get_effective_num_colors ==
    /\ gsObj # << >>
    /\ gsProp' = <<"effective_num_colors", effective_num_colors(gsObj[1])>>
    /\ UNCHANGED <<gsObj, gsErr, detVars, saveVars, appVars, cmdVars>>

\* reading the frame_duration_ms property
GifSettings_get_frame_duration_ms ==
    /\ gsObj # << >>
    /\ gsProp' = <<"frame_duration_ms", frame_duration_ms(gsObj[1])>>
    /\ UNCHANGED <<gsObj, gsErr, detVars, saveVars, appVars, cmdVars>>

\* the settings object goes out of scope when the call that built it returns
GifSettings_drop ==
    /\ gsObj # << >>
    /\ gsObj' = << >>
    /\ gsProp' = << >>
    /\ UNCHANGED <<gsErr, detVars, saveVars, appVars, cmdVars>>

SettingsInit ==
    /\ gsObj = << >>
    /\ gsErr = ""
    /\ gsProp = << >>

(***************************************************************************)
(* Frames and images                                                       *)
(*                                                                         *)
(* A captured frame (QImage) is a grid of <<b, g, r, a>> pixels, given as  *)
(* a sequence of rows; the null QImage is the empty grid.  The frames of   *)
(* the model are FrameSide x FrameSide gray screens.  A processed frame    *)
(* (PIL mode "P") is [px |-> grid of palette indices, pal |-> palette      *)
(* size]; PIL's adaptive palette is abstracted by the uniform gray palette *)
(* of that size.                                                           *)
(***************************************************************************)
\* gray steps of a captured pixel are 0..MaxLevel
MaxLevel == 2
\* the screen contents that can be captured are numbered 0..MaxContent
MaxContent == 3
\* width and height of every captured frame (qimage.width(), qimage.height())
FrameSide == 2
\* side of the fast-hash thumbnail: resize((8, 8)) scaled to the model's frames
FastSide == 1
\* side of the structural-hash thumbnail: resize((16, 16)) scaled to the model's frames
StructSide == 3
\* block_size of _calculate_local_changes_similarity
BlockSize == 8
\* "significant change" threshold of a block's mean difference
SignificantChange == 10
\* similarity scores and thresholds are in 1/Scale
Scale == 1000

RECURSIVE SumSeq(_)
SumSeq(q) == IF q = << >> THEN 0 ELSE Head(q) + SumSeq(Tail(q))

RECURSIVE Flatten(_)
\* the rows of a grid one after the other (tobytes / ndarray.flatten)
Flatten(g) == IF g = << >> THEN << >> ELSE Head(g) \o Flatten(Tail(g))

Height(g) == Len(g)
Width(g) == IF g = << >> THEN 0 ELSE Len(g[1])

\* 8-bit gray value of gray step k
Level(k) == (k * 255) \div MaxLevel

\* the i-th digit (from 0) of content number k in base MaxLevel + 1
Digit(k, i) == (k \div ((MaxLevel + 1) ^ i)) % (MaxLevel + 1)

\* the QImage captured from screen content k: opaque gray pixels whose
\* steps are the digits of k, the last pixel holding the lowest digit
ScreenFrame(k) ==
    [r \in 1..FrameSide |->
        [c \in 1..FrameSide |->
            LET v == Level(Digit(k, FrameSide * FrameSide - ((r - 1) * FrameSide + c)))
            IN  <<v, v, v, 255>>]]

NullFrame == << >>

\* ImageConverter.qimage_to_pil raises for a QImage without pixel data
qimage_to_pil_fails(q) == q = << >>

\* ImageConverter.qimage_to_pil: raw "BGRA" bytes decoded to "RGBA"
qimage_to_pil(q) ==
    [r \in 1..Height(q) |->
        [c \in 1..Width(q) |-> <<q[r][c][3], q[r][c][2], q[r][c][1], q[r][c][4]>>]]

\* source index (from 1) sampled by a nearest-neighbour resize for output
\* index i (from 1): floor((i - 1 + 0.5) * in / out)
NearestIndex(i, in, out) == (((2 * (i - 1) + 1) * in) \div (2 * out)) + 1

\* Image.resize((ow, oh), NEAREST)
ResizeNearest(g, ow, oh) ==
    [r \in 1..oh |-> [c \in 1..ow |->
        g[NearestIndex(r, Height(g), oh)][NearestIndex(c, Width(g), ow)]]]

\* Image.resize((ow, oh), LANCZOS) when shrinking, approximated per channel by
\* the rounded mean of the source pixels that fall on each output pixel
ResizeLanczos(g, ow, oh) ==
    [r \in 1..oh |-> [c \in 1..ow |->
        LET r0 == ((r - 1) * Height(g)) \div oh + 1
            r1 == Max(r0, (r * Height(g)) \div oh)
            c0 == ((c - 1) * Width(g)) \div ow + 1
            c1 == Max(c0, (c * Width(g)) \div ow)
            n  == (r1 - r0 + 1) * (c1 - c0 + 1)
            chan(k) == (SumSeq([i \in 1..n |->
                          g[r0 + ((i - 1) \div (c1 - c0 + 1))]
                           [c0 + ((i - 1) % (c1 - c0 + 1))][k]]) + (n \div 2)) \div n
        IN  [k \in 1..4 |-> chan(k)]]]

\* ITU-R 601 luma as PIL's convert('L') computes it
Luma(rgb) == (rgb[1] * 19595 + rgb[2] * 38470 + rgb[3] * 7471 + 32768) \div 65536

\* number of palette entries quantize(colors) yields for the model's frames
PaletteSize(colors) == Min(colors, MaxLevel + 1)

\* gray value of palette entry j of a palette of n entries
PaletteGray(j, n) == (j * 255) \div (n - 1)

\* Image.quantize(colors): every pixel replaced by the index of its palette entry
Quantize(rgbgrid, colors) ==
    [px  |-> [r \in 1..Height(rgbgrid) |-> [c \in 1..Width(rgbgrid) |->
                (Luma(rgbgrid[r][c]) * PaletteSize(colors)) \div 256]],
     pal |-> PaletteSize(colors)]

\* ImageConverter.process_image: optional downscale, RGB, quantize
process_image(pil, s) ==
    LET scaled == IF s.scale_factor < 100
                  THEN ResizeLanczos(pil,
                          Max(1, (Width(pil) * s.scale_factor) \div 100),
                          Max(1, (Height(pil) * s.scale_factor) \div 100))
                  ELSE pil
        rgb == [r \in 1..Height(scaled) |-> [c \in 1..Width(scaled) |->
                  <<scaled[r][c][1], scaled[r][c][2], scaled[r][c][3]>>]]
    IN  Quantize(rgb, effective_num_colors(s))

\* Image.convert('L') of a processed frame: the luma of each palette colour
GrayOf(img) ==
    [r \in 1..Height(img.px) |-> [c \in 1..Width(img.px) |->
        LET v == PaletteGray(img.px[r][c], img.pal) IN Luma(<<v, v, v>>)]]

(***************************************************************************)
(* FrameSimilarityDetector  (src/utils/gif_saver.py:86-337)                *)
(*                                                                         *)
(* md5 is taken to be injective: a digest is modelled by the byte sequence *)
(* it is computed from.  Scores are in 1/Scale, rounded down.              *)
(***************************************************************************)
\* FrameSimilarityDetector.__init__
FrameSimilarityDetector(threshold) ==
    [threshold |-> threshold,
     last_frame_hash |-> << >>,
     last_processed_image |-> << >>,
     last_histogram |-> << >>,
     last_structural_hash |-> << >>]

\* _calculate_image_hash: digest of the bytes of the nearest-neighbour thumbnail
calculate_image_hash(img) == Flatten(ResizeNearest(img.px, FastSide, FastSide))

\* _calculate_structural_hash: digest of the binarised gradient magnitude of
\* the gray thumbnail; uint8 arithmetic wraps modulo 256.  binary = combined >
\* mean + std is decided exactly: n*c - S > sqrt(n*Q - S^2).  Without numpy the
\* ImportError is caught and the fast hash is returned.
calculate_structural_hash(img, np) ==
    IF ~np THEN calculate_image_hash(img)
    ELSE
    LET arr == ResizeNearest(GrayOf(img), StructSide, StructSide)
        grad_x(r, c) == (arr[r + 1][c] - arr[r][c]) % 256
        grad_y(r, c) == (arr[r][c + 1] - arr[r][c]) % 256
        min_h == Min(StructSide - 1, StructSide)
        min_w == Min(StructSide, StructSide - 1)
        combined == Flatten([r \in 1..min_h |-> [c \in 1..min_w |->
                        (grad_x(r, c) + grad_y(r, c)) % 256]])
        n == Len(combined)
        S == SumSeq(combined)
        Q == SumSeq([i \in 1..n |-> combined[i] * combined[i]])
        above(c) == /\ n * c - S > 0
                    /\ (n * c - S) * (n * c - S) > n * Q - S * S
    IN  [i \in 1..n |-> IF above(combined[i]) THEN 1 ELSE 0]

\* variant: a reference whose hashes are not recomputed
update_reference_imageonly(d, img, np) ==
    [d EXCEPT !.last_processed_image = <<img>>]

\* _update_reference
update_reference(d, img, np) ==
    [d EXCEPT !.last_processed_image = <<img>>,
              !.last_frame_hash = <<calculate_image_hash(img)>>,
              !.last_structural_hash = <<calculate_structural_hash(img, np)>>]

\* _calculate_pixel_similarity: 1 - mean |difference| / 255, on the palette
\* indices that ImageChops.difference sees in mode "P"
calculate_pixel_similarity(img1, img2) ==
    LET a == Flatten(img1.px)
        b == Flatten(img2.px)
        n == Len(a)
        total == SumSeq([i \in 1..n |-> Abs(a[i] - b[i])])
    IN  Max(0, Min(Scale, (Scale * (n * 255 - total)) \div (n * 255)))

\* number of pixels of gray value v in convert('RGB').histogram(), per band
HistCount(img, v) ==
    LET a == Flatten(img.px)
    IN  Cardinality({i \in 1..Len(a) : PaletteGray(a[i], img.pal) = v})

\* _calculate_histogram_similarity: 1 - min(chi_squared / (768 * 2), 1); the
\* three bands of a gray palette have the same histogram, and only the bins
\* that are non-empty in one of the images contribute
calculate_histogram_similarity(img1, img2) ==
    LET used == {PaletteGray(j, img1.pal) : j \in 0..(img1.pal - 1)}
                \cup {PaletteGray(j, img2.pal) : j \in 0..(img2.pal - 1)}
        bins == {v \in used : HistCount(img1, v) + HistCount(img2, v) > 0}
        term(v) == LET h1 == HistCount(img1, v)
                       h2 == HistCount(img2, v)
                   IN  (Scale * (h1 - h2) * (h1 - h2)) \div (h1 + h2)
        q == CHOOSE q \in [1..Cardinality(bins) -> bins] :
                \A i, j \in 1..Cardinality(bins) : i # j => q[i] # q[j]
        chi_squared == 3 * SumSeq([i \in 1..Cardinality(bins) |-> term(q[i])])
        max_chi_squared == (3 * 256) * 2
    IN  Max(0, Min(Scale, Scale - Min(chi_squared \div max_chi_squared, Scale)))

\* _calculate_structural_similarity: np is imported inside the nested
\* detect_edges only, so np.mean in the enclosing function raises NameError
\* (ImportError without numpy); the except clause returns 0.0 for every pair
calculate_structural_similarity(img1, img2) == 0

\* _calculate_local_changes_similarity: share of the 8x8 blocks of the
\* difference image whose mean is not above 10; 1.0 when there is no block
calculate_local_changes_similarity(img1, img2) ==
    LET h == Height(img1.px)
        w == Width(img1.px)
        rows == h \div BlockSize
        cols == w \div BlockSize
        total_blocks == rows * cols
        blocksum(by, bx) ==
            SumSeq([i \in 1..(BlockSize * BlockSize) |->
                LET r == by * BlockSize + ((i - 1) \div BlockSize) + 1
                    c == bx * BlockSize + ((i - 1) % BlockSize) + 1
                IN  Abs(img1.px[r][c] - img2.px[r][c])])
        changed_blocks ==
            Cardinality({b \in (0..(rows - 1)) \X (0..(cols - 1)) :
                blocksum(b[1], b[2]) > SignificantChange * BlockSize * BlockSize})
    IN  IF total_blocks = 0 THEN Scale
        ELSE Max(0, Min(Scale, (Scale * (total_blocks - changed_blocks)) \div total_blocks))

\* _calculate_multiple_similarities.  The frames of one save have one size,
\* so the resize of img2 is not taken.
calculate_multiple_similarities(img1, img2) ==
    [pixel |-> calculate_pixel_similarity(img1, img2),
     histogram |-> calculate_histogram_similarity(img1, img2),
     structural |-> calculate_structural_similarity(img1, img2),
     local_changes |-> calculate_local_changes_similarity(img1, img2)]

\* the weights of _combine_similarities, in tenths
Weights == [pixel |-> 2, histogram |-> 2, structural |-> 3, local_changes |-> 3]

\* variant: an average over the metrics that did not fail (score 0 left out
\* together with its weight)
combine_similarities_skipfailed(sim) ==
    LET keys == {k \in DOMAIN sim \cap DOMAIN Weights : sim[k] # 0}
        q == CHOOSE q \in [1..Cardinality(keys) -> keys] :
                \A i, j \in 1..Cardinality(keys) : i # j => q[i] # q[j]
        weighted_sum == SumSeq([i \in 1..Cardinality(keys) |-> sim[q[i]] * Weights[q[i]]])
        total_weight == SumSeq([i \in 1..Cardinality(keys) |-> Weights[q[i]]])
    IN  IF total_weight = 0 THEN 0 ELSE weighted_sum \div total_weight

\* _combine_similarities: weighted_sum / total_weight over the metrics present
combine_similarities(sim) ==
    LET keys == DOMAIN sim \cap DOMAIN Weights
        q == CHOOSE q \in [1..Cardinality(keys) -> keys] :
                \A i, j \in 1..Cardinality(keys) : i # j => q[i] # q[j]
        weighted_sum == SumSeq([i \in 1..Cardinality(keys) |-> sim[q[i]] * Weights[q[i]]])
        total_weight == SumSeq([i \in 1..Cardinality(keys) |-> Weights[q[i]]])
    IN  IF total_weight = 0 THEN 0 ELSE weighted_sum \div total_weight

\* the score is_similar_to_previous compares with the threshold
combined_similarity(d, img) ==
    combine_similarities(calculate_multiple_similarities(d.last_processed_image[1], img))

\* is_similar_to_previous without the fast-hash test of step 1
is_similar_to_previous_nohash(d, img, np) ==
    IF d.last_processed_image = << >>
    THEN [det |-> update_reference(d, img, np), ret |-> FALSE]
    ELSE IF <<calculate_structural_hash(img, np)>> # d.last_structural_hash
    THEN [det |-> update_reference(d, img, np), ret |-> FALSE]
    ELSE IF combined_similarity(d, img) < d.threshold
    THEN [det |-> update_reference(d, img, np), ret |-> FALSE]
    ELSE [det |-> d, ret |-> TRUE]

\* is_similar_to_previous scoring the first frame against the threshold
is_similar_to_previous_firstscored(d, img, np) ==
    IF d.last_processed_image = << >>
    THEN [det |-> update_reference(d, img, np), ret |-> ~(0 < d.threshold)]
    ELSE IF <<calculate_image_hash(img)>> = d.last_frame_hash
    THEN [det |-> d, ret |-> TRUE]
    ELSE IF <<calculate_structural_hash(img, np)>> # d.last_structural_hash
    THEN [det |-> update_reference(d, img, np), ret |-> FALSE]
    ELSE IF combined_similarity(d, img) < d.threshold
    THEN [det |-> update_reference(d, img, np), ret |-> FALSE]
    ELSE [det |-> d, ret |-> TRUE]

\* is_similar_to_previous comparing the score with <= instead of <
is_similar_to_previous_leq(d, img, np) ==
    IF d.last_processed_image = << >>
    THEN [det |-> update_reference(d, img, np), ret |-> FALSE]
    ELSE IF <<calculate_image_hash(img)>> = d.last_frame_hash
    THEN [det |-> d, ret |-> TRUE]
    ELSE IF <<calculate_structural_hash(img, np)>> # d.last_structural_hash
    THEN [det |-> update_reference(d, img, np), ret |-> FALSE]
    ELSE IF combined_similarity(d, img) <= d.threshold
    THEN [det |-> update_reference(d, img, np), ret |-> FALSE]
    ELSE [det |-> d, ret |-> TRUE]

\* is_similar_to_previous without the structural-hash test of step 2
is_similar_to_previous_nostructural(d, img, np) ==
    IF d.last_processed_image = << >>
    THEN [det |-> update_reference(d, img, np), ret |-> FALSE]
    ELSE IF <<calculate_image_hash(img)>> = d.last_frame_hash
    THEN [det |-> d, ret |-> TRUE]
    ELSE IF combined_similarity(d, img) < d.threshold
    THEN [det |-> update_reference(d, img, np), ret |-> FALSE]
    ELSE [det |-> d, ret |-> TRUE]

\* is_similar_to_previous taking the first frame for a duplicate
is_similar_to_previous_firstskipped(d, img, np) ==
    IF d.last_processed_image = << >>
    THEN [det |-> update_reference(d, img, np), ret |-> TRUE]
    ELSE IF <<calculate_image_hash(img)>> = d.last_frame_hash
    THEN [det |-> d, ret |-> TRUE]
    ELSE IF <<calculate_structural_hash(img, np)>> # d.last_structural_hash
    THEN [det |-> update_reference(d, img, np), ret |-> FALSE]
    ELSE IF combined_similarity(d, img) < d.threshold
    THEN [det |-> update_reference(d, img, np), ret |-> FALSE]
    ELSE [det |-> d, ret |-> TRUE]

\* is_similar_to_previous: the detector after the call and the value returned
is_similar_to_previous(d, img, np) ==
    IF d.last_processed_image = << >>
    THEN [det |-> update_reference(d, img, np), ret |-> FALSE]
    ELSE IF <<calculate_image_hash(img)>> = d.last_frame_hash
    THEN [det |-> d, ret |-> TRUE]
    ELSE IF <<calculate_structural_hash(img, np)>> # d.last_structural_hash
    THEN [det |-> update_reference(d, img, np), ret |-> FALSE]
    ELSE IF combined_similarity(d, img) < d.threshold
    THEN [det |-> update_reference(d, img, np), ret |-> FALSE]
    ELSE [det |-> d, ret |-> TRUE]

\* FrameSimilarityDetector.reset
reset(d) ==
    [d EXCEPT !.last_frame_hash = << >>,
              !.last_processed_image = << >>,
              !.last_histogram = << >>,
              !.last_structural_hash = << >>]

(***************************************************************************)
(* Inputs of the detector                                                  *)
(***************************************************************************)
\* the processed form of screen content k under the default settings
ProcessedScreen(k) == process_image(qimage_to_pil(ScreenFrame(k)), DefaultSettings)

\* the processed frames submitted to the detector
DetImages == {ProcessedScreen(k) : k \in 0..MaxContent}

\* the score of screen 1 against reference screen 0: a threshold equal to it
\* puts a candidate exactly on the boundary of step 4
BoundaryScore ==
    combine_similarities(calculate_multiple_similarities(ProcessedScreen(0), ProcessedScreen(1)))

\* similarity thresholds given to the detector (all valid: within 0..Scale)
DetThresholds == {0, BoundaryScore, 950, Scale}

(***************************************************************************)
(* Actions on a FrameSimilarityDetector                                    *)
(***************************************************************************)
\* FrameSimilarityDetector(threshold)
FrameSimilarityDetector_new ==
    \E t \in DetThresholds :
        /\ det' = <<FrameSimilarityDetector(t)>>
        /\ dcall' = << >>
        /\ UNCHANGED <<numpy, settingsVars, saveVars, appVars, cmdVars>>

\* detector.is_similar_to_previous(img).  The call record keeps the argument,
\* the value returned, the detector before the call and the argument of the
\* call before it (<< >> for the first call since creation or reset).
FrameSimilarityDetector_is_similar_to_previous ==
    \E img \in DetImages :
        /\ det # << >>
        /\ LET r == is_similar_to_previous(det[1], img, numpy)
           IN  /\ det' = <<r.det>>
               /\ dcall' = <<[img |-> img, ret |-> r.ret, pre |-> det[1],
                              prev |-> IF dcall = << >> THEN << >>
                                       ELSE <<dcall[1].img>>]>>
        /\ UNCHANGED <<numpy, settingsVars, saveVars, appVars, cmdVars>>

\* detector.reset()
FrameSimilarityDetector_reset ==
    /\ det # << >>
    /\ det' = <<reset(det[1])>>
    /\ dcall' = << >>
    /\ UNCHANGED <<numpy, settingsVars, saveVars, appVars, cmdVars>>

DetInit ==
    /\ numpy \in BOOLEAN
    /\ det = << >>
    /\ dcall = << >>

(***************************************************************************)
(* The save operation  (src/utils/gif_saver.py:395-764 and                 *)
(* src/main_window.py:1155-1178)                                           *)
(*                                                                         *)
(* pc is the position of the one save in progress.  QApplication           *)
(* .processEvents() is where a click on the dialog's Cancel button is      *)
(* delivered: every step that calls it may set the dialog's canceled flag. *)
(* Python's None is << >>.  Texts are kept as tuples of their parts.       *)
(***************************************************************************)
\* the longest frame list handed to a save
MaxFrames == 2

\* frame lists: captured screens and null (malformed) frames, in any order
SaveFramePool == {ScreenFrame(k) : k \in 0..MaxContent} \cup {NullFrame}
SaveFrameLists == UNION {[1..n -> SaveFramePool] : n \in 0..MaxFrames}

\* settings arguments of the legacy wrapper: the valid combinations that
\* change the course of a save, and each field out of range in turn
SaveArgs ==
    { DefaultSettings,
      [DefaultSettings EXCEPT !.similarity_threshold = 0],
      [DefaultSettings EXCEPT !.enable_similarity_skip = FALSE],
      [DefaultSettings EXCEPT !.enable_similarity_skip = FALSE, !.skip_value = 2],
      [DefaultSettings EXCEPT !.enable_similarity_skip = FALSE, !.skip_value = 2,
                              !.fps = 7] }
    \cup { [DefaultSettings EXCEPT !.fps = 0],
           [DefaultSettings EXCEPT !.scale_factor = 150],
           [DefaultSettings EXCEPT !.scale_factor = 0],
           [DefaultSettings EXCEPT !.num_colors = 1],
           [DefaultSettings EXCEPT !.num_colors = 257],
           [DefaultSettings EXCEPT !.skip_value = 0],
           [DefaultSettings EXCEPT !.lossy_level = 11],
           [DefaultSettings EXCEPT !.lossy_level = -1],
           [DefaultSettings EXCEPT !.disposal_method = 4],
           [DefaultSettings EXCEPT !.disposal_method = -1],
           [DefaultSettings EXCEPT !.similarity_threshold = 1500],
           [DefaultSettings EXCEPT !.similarity_threshold = -1],
           [DefaultSettings EXCEPT !.num_colors = 1, !.similarity_threshold = 1500] }

FileName == "recording.gif"

\* variant: a progress manager that counts no step for the file write
ProgressManager_nosavingstep(total_frames) ==
    [total_frames |-> total_frames,
     frames_processing_steps |-> total_frames,
     saving_steps |-> 0,
     total_steps |-> total_frames,
     current_step |-> 0]

\* ProgressManager.__init__
ProgressManager(total_frames) ==
    [total_frames |-> total_frames,
     frames_processing_steps |-> total_frames,
     saving_steps |-> 1,
     total_steps |-> total_frames + 1,
     current_step |-> 0]

\* QProgressDialog("Starting...", "Cancel", 0, total_steps, parent)
QProgressDialog(maximum) ==
    [value |-> 0, maximum |-> maximum, label |-> <<"Starting...">>, canceled |-> FALSE]

\* variant: an is_cancelled() that never reports the cancel
is_cancelled_never(dlg) == FALSE

\* ProgressManager.is_cancelled: self.dialog and self.dialog.wasCanceled()
is_cancelled(dlg) == dlg # << >> /\ dlg[1].canceled

\* the status text of iteration i of _process_frames
StatusText(i, n, skipped) ==
    IF skipped > 0 THEN <<"Processing frame", i + 1, n, "skipped", skipped>>
    ELSE <<"Processing frame", i + 1, n>>

\* the final status text of _process_frames
FinalStatus(kept, skipped) ==
    IF skipped > 0 THEN <<"Processed", kept, "skipped", skipped>>
    ELSE <<"Processed", kept>>

\* QMessageBox.critical(parent_widget, title, text)
Critical(title, text) == [kind |-> "critical", title |-> title, text |-> text]

\* QMessageBox.information(parent_widget, "Success", ...)
Information(text) == [kind |-> "information", title |-> "Success", text |-> text]

\* variant: an Image.save call that passes only append_images
EncoderCall_appendonly(images, s, name) ==
    [filename |-> name, images |-> Tail(images), duration |-> frame_duration_ms(s),
     loop |-> 0, optimize |-> TRUE, disposal |-> s.disposal_method]

\* the arguments of Image.save(filename, save_all=True, append_images=...,
\* duration=..., loop=0, optimize=True, disposal=...)
EncoderCall(images, s, name) ==
    [filename |-> name, images |-> images, duration |-> frame_duration_ms(s),
     loop |-> 0, optimize |-> TRUE, disposal |-> s.disposal_method]

\* variant: a _validate_inputs that accepts the empty frame list
validate_inputs_any(fr) == TRUE

\* GifSaver._validate_inputs: whether the frame list is accepted
validate_inputs(fr) == fr # << >>

\* variant: _show_error without a parent widget, which only prints
show_error_print(m, text) == m

\* GifSaver._show_error with a parent widget: a critical message box
show_error(m, text) == Append(m, Critical("Error", text))

\* the progress callbacks given to a save: the main window's
\* _update_save_progress and a callback that raises
Callbacks == {"update_save_progress", "raises"}

\* variant: a callback invoked with the 1-based number of the frame
call_progress_callback_onebased(cb, st, current_frame) ==
    IF cb = "raises" THEN st ELSE <<"Saving GIF", current_frame + 1>>

\* update_frame_progress calling self.progress_callback(current_frame): the
\* status label after the call; an exception of the callback is printed and
\* leaves the label as it was
call_progress_callback(cb, st, current_frame) ==
    IF cb = "raises" THEN st ELSE <<"Saving GIF", current_frame>>

\* variant: a poll that never sees the cancel button
was_canceled_never(dlg) == FALSE

\* the poll of update_frame_progress / start_saving_phase: dialog.wasCanceled()
was_canceled(dlg) == dlg # << >> /\ dlg[1].canceled

\* the return value None of save_gif_from_frames
ReturnNone == [done |-> TRUE, value |-> << >>]

\* the clicks processEvents() can deliver to a dialog: once canceled it stays so
Clicks(dlg) == IF dlg[1].canceled THEN {TRUE} ELSE BOOLEAN

\* the first request to cancel, with the number of frames converted before it
Requested(click, phase) ==
    IF click /\ ~dialog[1].canceled /\ reqAt = << >>
    THEN <<[converted |-> converted, phase |-> phase]>>
    ELSE reqAt

\* variant: an exception that is swallowed, the frames kept so far being saved
Raise_swallowed(text, cause) ==
    /\ UNCHANGED <<dialog, msgs, ret, why>>
    /\ pc' = "final_update"

\* an exception leaves _perform_save: the progress_context closes the dialog
\* and save_gif_from_frames reports it and returns None
Raise(text, cause) ==
    /\ dialog' = << >>
    /\ msgs' = show_error(msgs, <<"Unexpected error during save">> \o text)
    /\ ret' = ReturnNone
    /\ why' = cause
    /\ pc' = "returned"

\* the legacy wrapper save_gif_from_frames(parent_widget, frames, fps, ...):
\* builds the GifSettings; a ValueError is shown and None returned
save_gif_from_frames ==
    \E a \in SaveArgs, fr \in SaveFrameLists, cb \in Callbacks :
        /\ pc = "idle"
        /\ svArgs' = <<a>>
        /\ progress_callback' = <<cb>>
        /\ frames' = fr
        /\ gsErr' = GifSettings_validate(a)
        /\ IF GifSettings_validate(a) # ""
           THEN /\ gsObj' = << >>
                /\ msgs' = Append(msgs, Critical("Invalid Settings", GifSettings_validate(a)))
                /\ ret' = ReturnNone
                /\ why' = "invalid_settings"
                /\ pc' = "returned"
           ELSE /\ gsObj' = <<a>>
                /\ pc' = "validate_inputs"
                /\ UNCHANGED <<msgs, ret, why>>
        /\ UNCHANGED <<appVars, cmdVars, gsProp, detVars, filename, loopV, uiV, encoder, file, ghostV>>

\* GifSaver.save_gif_from_frames, first part: _validate_inputs
GifSaver_validate_inputs ==
    /\ pc = "validate_inputs"
    /\ IF validate_inputs(frames)
       THEN /\ pc' = "get_filename"
            /\ UNCHANGED <<msgs, ret, why>>
       ELSE /\ msgs' = show_error(msgs, <<"No frames to save!">>)
            /\ ret' = ReturnNone
            /\ why' = "no_input"
            /\ pc' = "returned"
    /\ UNCHANGED <<appVars, cmdVars, settingsVars, detVars, inputsV, filename, loopV, uiV, encoder, file, ghostV>>

\* GifSaver._get_save_filename: the user picks a name or dismisses the dialog
GifSaver_get_save_filename ==
    \E name \in {<< >>, <<FileName>>} :
        /\ pc = "get_filename"
        /\ filename' = name
        /\ IF name = << >>
           THEN /\ ret' = ReturnNone
                /\ why' = "dialog_dismissed"
                /\ pc' = "returned"
           ELSE /\ pc' = "create_dialog"
                /\ UNCHANGED <<ret, why>>
        /\ UNCHANGED <<appVars, cmdVars, settingsVars, detVars, inputsV, loopV, uiV, encoder, file, msgs, ghostV>>

\* _perform_save: ProgressManager(...) and progress_context -> _create_dialog,
\* whose processEvents() may already deliver a cancel
ProgressManager_create_dialog ==
    \E click \in BOOLEAN :
        /\ pc = "create_dialog"
        /\ pm' = <<ProgressManager(Len(frames))>>
        /\ dialog' = <<[QProgressDialog(Len(frames) + 1) EXCEPT !.canceled = click]>>
        /\ reqAt' = IF click THEN <<[converted |-> 0, phase |-> "processing"]>> ELSE reqAt
        /\ pc' = "process_begin"
        /\ UNCHANGED <<appVars, cmdVars, settingsVars, detVars, inputsV, filename, loopV, cbLog, status,
                       outV, obsAt>>

\* _process_frames up to the loop: the locals and the detector
GifSaver_process_frames_begin ==
    /\ pc = "process_begin"
    /\ processed_images' = << >>
    /\ det' = IF gsObj[1].enable_similarity_skip
              THEN <<FrameSimilarityDetector(gsObj[1].similarity_threshold)>>
              ELSE << >>
    /\ dcall' = << >>
    /\ skipped_count' = 0
    /\ idx' = 0
    /\ pc' = IF Len(frames) > 0 THEN "poll" ELSE "final_update"
    /\ UNCHANGED <<appVars, cmdVars, settingsVars, numpy, inputsV, filename, converted, procRet, uiV, outV, ghostV>>

\* the head of iteration idx: update_frame_progress(i, status_text).  A
\* canceled dialog ends _process_frames with None; otherwise the step, the
\* label and the callback are updated and processEvents() may deliver a cancel.
ProgressManager_update_frame_progress ==
    /\ pc = "poll"
    /\ IF was_canceled(dialog)
       THEN /\ obsAt' = <<idx>>
            /\ procRet' = << >>
            /\ pc' = "after_process"
            /\ UNCHANGED <<pm, dialog, cbLog, status, reqAt>>
       ELSE \E click \in Clicks(dialog) :
            /\ pm' = <<[pm[1] EXCEPT !.current_step = idx]>>
            /\ dialog' = <<[dialog[1] EXCEPT !.value = idx,
                              !.label = StatusText(idx, Len(frames), skipped_count),
                              !.canceled = click]>>
            /\ reqAt' = Requested(click, "processing")
            /\ cbLog' = Append(cbLog, idx)
            /\ status' = call_progress_callback(progress_callback[1], status, idx)
            /\ pc' = "process"
            /\ UNCHANGED <<obsAt, procRet>>
    /\ UNCHANGED <<appVars, cmdVars, settingsVars, detVars, inputsV, filename, idx, processed_images,
                   skipped_count, converted, outV>>

\* the body of iteration idx: convert, process, similarity gate, append.  Any
\* exception becomes RuntimeError("Failed to process frame i+1: ...").
GifSaver_process_frame ==
    /\ pc = "process"
    /\ converted' = converted + 1
    /\ IF qimage_to_pil_fails(frames[idx + 1])
       THEN /\ Raise(<<"Failed to process frame", idx + 1>>, "process_error")
            /\ UNCHANGED <<det, dcall, processed_images, skipped_count, idx>>
       ELSE LET img == process_image(qimage_to_pil(frames[idx + 1]), gsObj[1])
                r == is_similar_to_previous(det[1], img, numpy)
            IN  /\ IF det # << >>
                   THEN /\ det' = <<r.det>>
                        /\ dcall' = <<[img |-> img, ret |-> r.ret, pre |-> det[1],
                                       prev |-> IF dcall = << >> THEN << >>
                                                ELSE <<dcall[1].img>>]>>
                   ELSE UNCHANGED <<det, dcall>>
                /\ IF det # << >> /\ r.ret
                   THEN /\ skipped_count' = skipped_count + 1
                        /\ UNCHANGED processed_images
                   ELSE /\ processed_images' = Append(processed_images, img)
                        /\ UNCHANGED skipped_count
                /\ idx' = idx + 1
                /\ pc' = IF idx + 1 < Len(frames) THEN "poll" ELSE "final_update"
                /\ UNCHANGED <<dialog, msgs, ret, why>>
    /\ UNCHANGED <<appVars, cmdVars, settingsVars, numpy, inputsV, filename, procRet, pm, cbLog, status,
                   encoder, file, ghostV>>

\* the end of _process_frames: update_frame_progress(len(frames), final_status),
\* whose result is ignored, then return processed_images
GifSaver_process_frames_end ==
    /\ pc = "final_update"
    /\ IF was_canceled(dialog)
       THEN /\ obsAt' = IF obsAt = << >> THEN <<idx>> ELSE obsAt
            /\ UNCHANGED <<pm, dialog, cbLog, status, reqAt>>
       ELSE \E click \in Clicks(dialog) :
            /\ pm' = <<[pm[1] EXCEPT !.current_step = Len(frames)]>>
            /\ dialog' = <<[dialog[1] EXCEPT !.value = Len(frames),
                              !.label = FinalStatus(Len(processed_images), skipped_count),
                              !.canceled = click]>>
            /\ reqAt' = Requested(click, "processed")
            /\ cbLog' = Append(cbLog, Len(frames))
            /\ status' = call_progress_callback(progress_callback[1], status, Len(frames))
            /\ UNCHANGED obsAt
    /\ procRet' = <<processed_images>>
    /\ pc' = "after_process"
    /\ UNCHANGED <<appVars, cmdVars, settingsVars, detVars, inputsV, filename, idx, processed_images,
                   skipped_count, converted, outV>>

\* _perform_save after _process_frames:
\* if not processed_images or progress_manager.is_cancelled(): return None
GifSaver_perform_save_check ==
    /\ pc = "after_process"
    /\ IF procRet = << >> \/ procRet[1] = << >> \/ is_cancelled(dialog)
       THEN /\ ret' = ReturnNone
            /\ why' = IF is_cancelled(dialog) THEN "cancelled" ELSE "nothing_kept"
            /\ obsAt' = IF obsAt = << >> /\ is_cancelled(dialog) THEN <<idx>> ELSE obsAt
            /\ dialog' = << >>
            /\ pc' = "returned"
       ELSE /\ pc' = "start_saving"
            /\ UNCHANGED <<ret, why, obsAt, dialog>>
    /\ UNCHANGED <<appVars, cmdVars, settingsVars, detVars, inputsV, filename, loopV, pm, cbLog, status,
                   encoder, file, msgs, reqAt>>

\* start_saving_phase and its test in _perform_save
ProgressManager_start_saving_phase ==
    /\ pc = "start_saving"
    /\ IF was_canceled(dialog)
       THEN /\ ret' = ReturnNone
            /\ why' = "cancelled"
            /\ dialog' = << >>
            /\ pc' = "returned"
            /\ UNCHANGED <<pm, reqAt>>
       ELSE \E click \in Clicks(dialog) :
            /\ pm' = <<[pm[1] EXCEPT !.current_step = pm[1].frames_processing_steps]>>
            /\ dialog' = <<[dialog[1] EXCEPT !.value = pm[1].frames_processing_steps,
                              !.label = <<"Writing GIF file...">>,
                              !.canceled = click]>>
            /\ reqAt' = Requested(click, "writing")
            /\ pc' = "save_file"
            /\ UNCHANGED <<ret, why>>
    /\ UNCHANGED <<appVars, cmdVars, settingsVars, detVars, inputsV, filename, loopV, cbLog, status,
                   encoder, file, msgs, obsAt>>

\* _save_gif_file: ValueError without images, nothing when canceled, else one
\* Image.save call, which may fail and then leaves no file or a partial one
GifSaver_save_gif_file ==
    /\ pc = "save_file"
    /\ IF procRet[1] = << >>
       THEN /\ Raise(<<"No images to save">>, "encode_error")
            /\ UNCHANGED <<encoder, file, obsAt>>
       ELSE IF is_cancelled(dialog)
       THEN /\ pc' = "post_save"
            /\ obsAt' = IF obsAt = << >> THEN <<idx>> ELSE obsAt
            /\ UNCHANGED <<encoder, file, dialog, msgs, ret, why>>
       ELSE \E written \in BOOLEAN, partial \in BOOLEAN :
            /\ encoder' = Append(encoder, EncoderCall(procRet[1], gsObj[1], filename[1]))
            /\ UNCHANGED obsAt
            /\ IF written
               THEN /\ file' = <<EncoderCall(procRet[1], gsObj[1], filename[1])>>
                    /\ pc' = "post_save"
                    /\ UNCHANGED <<dialog, msgs, ret, why>>
               ELSE /\ file' = IF partial THEN <<[filename |-> filename[1]]>> ELSE file
                    /\ Raise(<<"Failed to save GIF file">>, "encode_error")
    /\ UNCHANGED <<appVars, cmdVars, settingsVars, detVars, inputsV, filename, loopV, pm, cbLog, status, reqAt>>

\* variant: a _perform_save that lets finish_saving process the events
\* before it tests is_cancelled(), so that a late click cancels the save
GifSaver_perform_save_finish_latepoll ==
    /\ pc = "post_save"
    /\ \E click \in Clicks(dialog) :
        /\ reqAt' = Requested(click, "finishing")
        /\ IF click
           THEN /\ ret' = ReturnNone
                /\ why' = "cancelled"
                /\ UNCHANGED <<pm, msgs>>
           ELSE /\ pm' = <<[pm[1] EXCEPT !.current_step = pm[1].total_steps]>>
                /\ msgs' = Append(msgs, Information(filename[1]))
                /\ ret' = [done |-> TRUE, value |-> filename]
                /\ why' = "saved"
    /\ dialog' = << >>
    /\ pc' = "returned"
    /\ UNCHANGED <<appVars, cmdVars, settingsVars, detVars, inputsV, filename, loopV, cbLog, status,
                   encoder, file, obsAt>>

\* _perform_save after _save_gif_file: the last is_cancelled() test,
\* finish_saving, whose processEvents() delivers a click made during or
\* after the write, the success message and the name returned
GifSaver_perform_save_finish ==
    /\ pc = "post_save"
    /\ IF is_cancelled(dialog)
       THEN /\ ret' = ReturnNone
            /\ why' = "cancelled"
            /\ UNCHANGED <<pm, msgs, reqAt>>
       ELSE \E click \in Clicks(dialog) :
            /\ pm' = <<[pm[1] EXCEPT !.current_step = pm[1].total_steps]>>
            /\ reqAt' = Requested(click, "finishing")
            /\ msgs' = Append(msgs, Information(filename[1]))
            /\ ret' = [done |-> TRUE, value |-> filename]
            /\ why' = "saved"
    /\ dialog' = << >>
    /\ pc' = "returned"
    /\ UNCHANGED <<appVars, cmdVars, settingsVars, detVars, inputsV, filename, loopV, cbLog, status,
                   encoder, file, obsAt>>

\* GifRecorderMainWindow._save_gif after the call: the status label shows the
\* saved name, or is restored by update_status_label()
MainWindow_save_gif_result ==
    /\ pc = "returned"
    /\ status' = IF ret.value # << >> THEN <<"Saved", ret.value[1]>> ELSE <<"restored">>
    /\ pc' = "done"
    /\ UNCHANGED <<appVars, cmdVars, settingsVars, detVars, inputsV, filename, loopV, pm, dialog, cbLog,
                   outV, ghostV>>

SaveInit ==
    /\ pc = "idle"
    /\ svArgs = << >>
    /\ progress_callback = << >>
    /\ frames = << >>
    /\ filename = << >>
    /\ pm = << >>
    /\ dialog = << >>
    /\ idx = 0
    /\ processed_images = << >>
    /\ skipped_count = 0
    /\ converted = 0
    /\ procRet = << >>
    /\ cbLog = << >>
    /\ status = <<"idle">>
    /\ encoder = << >>
    /\ file = << >>
    /\ ret = [done |-> FALSE, value |-> << >>]
    /\ msgs = << >>
    /\ why = ""
    /\ reqAt = << >>
    /\ obsAt = << >>

(***************************************************************************)
(* The frames chosen for a save: GifRecorderMainWindow._on_save_clicked     *)
(* Frames of the buffer are named by their position in the recording.      *)
(***************************************************************************)
\* recordings of up to MaxBuffer frames
MaxBuffer == 20

\* values of the preview fps spin box (range 1..60) used at a save
SaveFpsValues == (1..MaxFps) \cup {7, 10, 60}

\* Python seq[lo:hi] with 0 <= lo
PySlice(seq, lo, hi) == SubSeq(seq, Min(lo, Len(seq)) + 1, Min(hi, Len(seq)))

\* Python seq[::k] with k >= 1
PyStep(seq, k) == [i \in 1..((Len(seq) + k - 1) \div k) |-> seq[(i - 1) * k + 1]]

\* RangeSlider(minimum=0, maximum=100)
RangeSlider ==
    [minimum |-> 0, maximum |-> 100, start_value |-> 0, end_value |-> 100,
     active_handle |-> << >>]

\* RangeSlider.set_range
set_range(r, minimum, maximum) ==
    [r EXCEPT !.minimum = minimum, !.maximum = maximum,
              !.start_value = Max(minimum, Min(r.start_value, maximum)),
              !.end_value = Max(minimum, Min(r.end_value, maximum))]

\* RangeSlider.pixel_to_value over the positions of the pointer: every value
\* from minimum to maximum, the minimum alone where maximum <= minimum
PixelValues(r) ==
    IF r.maximum <= r.minimum THEN {r.minimum} ELSE r.minimum..r.maximum

\* where a press of the left button lands: inside the rectangle of the start
\* handle, inside that of the end handle only (the start handle is tested
\* first and covers it where the values are equal), or elsewhere on the
\* widget, at the x position of any value
Presses(r) ==
    {[on |-> "start", x |-> r.start_value]}
        \cup (IF r.end_value # r.start_value
              THEN {[on |-> "end", x |-> r.end_value]} ELSE {})
        \cup {[on |-> "track", x |-> v] : v \in PixelValues(r)}

\* RangeSlider.mousePressEvent with the left button: a handle is grabbed, or
\* the click on the track moves the nearer handle, the end handle on a tie
mousePressEvent(r, at) ==
    IF at.on \in {"start", "end"} THEN [r EXCEPT !.active_handle = <<at.on>>]
    ELSE IF Abs(at.x - r.start_value) < Abs(at.x - r.end_value)
         THEN [r EXCEPT !.start_value = at.x, !.active_handle = <<"start">>]
         ELSE [r EXCEPT !.end_value = at.x, !.active_handle = <<"end">>]

\* RangeSlider.mouseMoveEvent
mouseMoveEvent(r, new_value) ==
    IF r.active_handle = <<"start">>
    THEN [r EXCEPT !.start_value = Min(new_value, r.end_value)]
    ELSE IF r.active_handle = <<"end">>
    THEN [r EXCEPT !.end_value = Max(new_value, r.start_value)]
    ELSE r

\* RangeSlider.mouseReleaseEvent
mouseReleaseEvent(r) == [r EXCEPT !.active_handle = << >>]

\* RangeSlider.set_values
set_values(r, start, end) ==
    LET a == Max(r.minimum, Min(start, r.maximum))
        b == Max(r.minimum, Min(end, r.maximum))
    IN  [r EXCEPT !.start_value = Min(a, b), !.end_value = Max(a, b)]

\* PreviewWidget.set_frames: its effect on the range slider
set_frames(r, fr) ==
    IF fr # << >>
    THEN set_values(set_range(r, 0, Len(fr) - 1), 0, Len(fr) - 1)
    ELSE set_range(r, 0, 0)

\* variant: a stop that always enters the editing mode
mode_after_stop_editing(fr) == "editing"

\* RecordingManager.stop: EDITING if self.main_window.frames else READY
mode_after_stop(fr) == IF fr # << >> THEN "editing" ELSE "ready"

\* variant: a selection whose range excludes the end index
prepare_frames_for_save_exclusive(fr, start, end, skip) ==
    IF skip > 1 THEN PyStep(PySlice(fr, start, end), skip)
    ELSE PySlice(fr, start, end)

\* variant: a selection that ignores skip_frame
prepare_frames_for_save_nostride(fr, start, end, skip) ==
    PySlice(fr, start, end + 1)

\* GifRecorderMainWindow._prepare_frames_for_save
prepare_frames_for_save(fr, start, end, skip) ==
    IF skip > 1 THEN PyStep(PySlice(fr, start, end + 1), skip)
    ELSE PySlice(fr, start, end + 1)

\* a recording session that ended with n frames in the buffer: the preview
\* receives the frames and the range slider spans all of them
MainWindow_recorded ==
    \E n \in 0..MaxBuffer :
        /\ mwFrames = << >>
        /\ mode = "ready"
        /\ mwFrames' = [i \in 1..n |-> i]
        /\ rangeSlider' = IF n > 0 THEN set_frames(rangeSlider, [i \in 1..n |-> i])
                          ELSE rangeSlider
        /\ pvFrames' = IF n > 0 THEN [i \in 1..n |-> i] ELSE pvFrames
        /\ mode' = mode_after_stop([i \in 1..n |-> i])
        /\ saveReq' = << >>
        /\ UNCHANGED <<settingsVars, cmdVars, detVars, saveVars, fbf, timer, pendingFrames,
                       shots, nextId, rcall, mainPc, question>>

\* the user drags a handle of the range slider by one position
RangeSlider_set_values ==
    \E da \in {-1, 0, 1}, db \in {-1, 0, 1} :
        /\ mwFrames # << >>
        /\ rangeSlider' = set_values(rangeSlider, rangeSlider.start_value + da,
                                     rangeSlider.end_value + db)
        /\ rangeSlider' # rangeSlider
        /\ saveReq' = << >>
        /\ UNCHANGED <<mwFrames, pvFrames, settingsVars, cmdVars, detVars, saveVars, recVars>>

\* the left button is pressed on the range slider of the preview
RangeSlider_mousePressEvent ==
    \E at \in Presses(rangeSlider) :
        /\ mwFrames # << >>
        /\ rangeSlider.active_handle = << >>
        /\ rangeSlider' = mousePressEvent(rangeSlider, at)
        /\ saveReq' = << >>
        /\ UNCHANGED <<mwFrames, pvFrames, settingsVars, cmdVars, detVars, saveVars, recVars>>

\* the pointer moves over the range slider with the button held
RangeSlider_mouseMoveEvent ==
    \E new_value \in PixelValues(rangeSlider) :
        /\ mwFrames # << >>
        /\ rangeSlider.active_handle # << >>
        /\ rangeSlider' = mouseMoveEvent(rangeSlider, new_value)
        /\ rangeSlider' # rangeSlider
        /\ saveReq' = << >>
        /\ UNCHANGED <<mwFrames, pvFrames, settingsVars, cmdVars, detVars, saveVars, recVars>>

\* the button is released
RangeSlider_mouseReleaseEvent ==
    /\ mwFrames # << >>
    /\ rangeSlider.active_handle # << >>
    /\ rangeSlider' = mouseReleaseEvent(rangeSlider)
    /\ saveReq' = << >>
    /\ UNCHANGED <<mwFrames, pvFrames, settingsVars, cmdVars, detVars, saveVars, recVars>>

\* _on_save_clicked: the frames are selected and, unless none is left, handed
\* to _save_gif with the preview fps and the skip_frame of the quality settings
MainWindow_on_save_clicked ==
    \E f \in SaveFpsValues, k \in 1..MaxSkip :
        LET sel == prepare_frames_for_save(mwFrames, rangeSlider.start_value,
                                           rangeSlider.end_value, k)
        IN  /\ saveReq' =
                  IF sel = << >>
                  THEN <<[warning |-> "No frames to save.", start |-> rangeSlider.start_value,
                          end |-> rangeSlider.end_value, skip_value |-> k]>>
                  ELSE <<[frames |-> sel, fps |-> f, skip_value |-> k,
                          start |-> rangeSlider.start_value,
                          end |-> rangeSlider.end_value,
                          duration |-> frame_duration_ms(
                              [DefaultSettings EXCEPT !.fps = f, !.skip_value = k])]>>
            /\ UNCHANGED <<mwFrames, rangeSlider, pvFrames, settingsVars, cmdVars, detVars, saveVars, recVars>>

\* the answers to the question of clear_frames(confirm=True)
Replies == {"Yes", "No"}

\* variant: a clear that discards the frames whatever the answer
MainWindow_clear_frames_noconfirm ==
    \E reply \in Replies :
        /\ mwFrames # << >>
        /\ mode \in {"ready", "editing"}
        /\ mainPc = "idle"
        /\ mwFrames' = << >>
        /\ rangeSlider' = set_frames(rangeSlider, << >>)
        /\ pvFrames' = << >>
        /\ mode' = "ready"
        /\ fbf' = FALSE
        /\ saveReq' = << >>
        /\ rcall' = <<[op |-> "clear_frames", from |-> mode, reply |-> reply]>>
        /\ UNCHANGED <<settingsVars, cmdVars, detVars, saveVars, timer, pendingFrames, shots,
                       nextId, mainPc, question>>

\* clear_frames(confirm=True) with frames in the buffer, from the New button,
\* the record button in the EDITING mode or the stop action: answered Yes,
\* the buffer and the preview are emptied and the session is READY; answered
\* No, nothing is done.  The call record keeps the mode and the answer.
MainWindow_clear_frames ==
    \E reply \in Replies :
        /\ mwFrames # << >>
        /\ mode \in {"ready", "editing"}
        /\ mainPc = "idle"
        /\ IF reply = "Yes"
           THEN /\ mwFrames' = << >>
                /\ rangeSlider' = set_frames(rangeSlider, << >>)
                /\ pvFrames' = << >>
                /\ mode' = "ready"
                /\ fbf' = FALSE
                /\ saveReq' = << >>
           ELSE UNCHANGED <<mwFrames, rangeSlider, pvFrames, mode, fbf, saveReq>>
        /\ rcall' = <<[op |-> "clear_frames", from |-> mode, reply |-> reply]>>
        /\ UNCHANGED <<settingsVars, cmdVars, detVars, saveVars, timer, pendingFrames, shots,
                       nextId, mainPc, question>>

\* clear_frames(confirm=True) up to QMessageBox.question: the call blocks in
\* the event loop of the message box, which delivers the queued signals (the
\* frames, the global hotkeys) and the single shots to their handlers until
\* the user answers
MainWindow_clear_frames_question ==
    /\ mwFrames # << >>
    /\ mode \in {"ready", "editing"}
    /\ mainPc = "idle"
    /\ question = << >>
    /\ question' = <<[from |-> mode]>>
    /\ UNCHANGED <<settingsVars, cmdVars, detVars, saveVars, mwFrames, rangeSlider, pvFrames, saveReq, mode,
                   fbf, timer, pendingFrames, shots, nextId, rcall, mainPc>>

\* QMessageBox.question returns the answer and clear_frames goes on: answered
\* Yes, the buffer and the preview are emptied, the mode is READY and the
\* flag is cleared, whatever the handlers did while the question was open
MainWindow_clear_frames_answered ==
    \E reply \in Replies :
        /\ question # << >>
        /\ mainPc = "idle"
        /\ IF reply = "Yes"
           THEN /\ mwFrames' = << >>
                /\ rangeSlider' = set_frames(rangeSlider, << >>)
                /\ pvFrames' = << >>
                /\ mode' = "ready"
                /\ fbf' = FALSE
                /\ saveReq' = << >>
           ELSE UNCHANGED <<mwFrames, rangeSlider, pvFrames, mode, fbf, saveReq>>
        /\ question' = << >>
        /\ rcall' = <<[op |-> "clear_frames", from |-> question[1].from, reply |-> reply,
                       to |-> mode]>>
        /\ UNCHANGED <<settingsVars, cmdVars, detVars, saveVars, timer, pendingFrames, shots,
                       nextId, mainPc>>

\* variant: a deletion that also removes the only frame left
delete_frame_last(fr, index) ==
    [i \in 1..(Len(fr) - 1) |-> IF i <= index THEN fr[i] ELSE fr[i + 1]]

\* PreviewWidget._delete_current_frame on the frames of the preview: the only
\* frame left is not deleted; otherwise del self.frames[index]
delete_frame(fr, index) ==
    IF Len(fr) = 1 THEN fr
    ELSE [i \in 1..(Len(fr) - 1) |-> IF i <= index THEN fr[i] ELSE fr[i + 1]]

\* the Delete button of the preview, shown in the EDITING mode, with any frame
\* current: the frame is deleted from the preview's copy, the range slider
\* is fitted to the frames left, and the copy replaces the buffer of the main
\* window.  With one frame left a warning is shown and nothing is deleted.
PreviewWidget_delete_current_frame ==
    \E index \in 0..(Len(pvFrames) - 1) :
        LET fr == delete_frame(pvFrames, index)
            last == Len(fr) - 1
            new_end == Min(rangeSlider.end_value, last)
            new_start == Min(Min(rangeSlider.start_value, last), new_end)
        IN  /\ mode = "editing"
            /\ mainPc = "idle"
            /\ question = << >>
            /\ IF fr = pvFrames
               THEN UNCHANGED <<mwFrames, pvFrames, rangeSlider>>
               ELSE /\ pvFrames' = fr
                    /\ rangeSlider' = set_values(set_range(rangeSlider, 0, last),
                                                 new_start, new_end)
                    /\ mwFrames' = fr
            /\ rcall' = <<[op |-> "delete_current_frame", index |-> index,
                           had |-> Len(pvFrames)]>>
            /\ UNCHANGED <<settingsVars, cmdVars, detVars, saveVars, saveReq, question, mode, fbf,
                           timer, pendingFrames, shots, nextId, mainPc>>

SelInit ==
    /\ mwFrames = << >>
    /\ pvFrames = << >>
    /\ rangeSlider = RangeSlider
    /\ saveReq = << >>

RecInit ==
    /\ mode = "ready"
    /\ fbf = FALSE
    /\ timer = << >>
    /\ pendingFrames = << >>
    /\ shots = [record_single_frame |-> 0, pause_after_single_frame |-> 0,
                stale |-> [record_single_frame |-> 0, pause_after_single_frame |-> 0]]
    /\ nextId = 0
    /\ rcall = << >>
    /\ mainPc = "idle"
    /\ question = << >>

(***************************************************************************)
(* Recording: RecordingManager on the main thread, RecordingTimer.run on   *)
(* the capture thread.  frame_captured is emitted on the capture thread    *)
(* and delivered to add_frame by the main thread's event loop.  Time is    *)
(* not modelled: sleeps and single-shot delays may take any duration.      *)
(***************************************************************************)
\* screen grabs per behaviour
MaxCaptures == 3
\* pending single-shot callbacks of one kind
MaxShots == 2

\* recording rectangles: get_recording_rect() may have any width and height
Rects == [w : {-1, 0, 2}, h : {-1, 0, 2}]

\* variant: a test of the width only
TooSmall_width(rect) == rect.w <= 0

\* record_rect.width() <= 0 or record_rect.height() <= 0
TooSmall(rect) == rect.w <= 0 \/ rect.h <= 0

\* RecordingTimer(rect, fps) after __init__ and QThread.start(): the thread
\* exists and run() has not begun
RecordingTimer == [is_running |-> FALSE, is_paused |-> FALSE, tpc |-> "starting"]

\* QTimer.singleShot(ms, callback).  The pending callbacks are counted by
\* name; stale counts those of them that were scheduled before the last
\* return of stop.
singleShot(sh, name) == [sh EXCEPT ![name] = @ + 1]

\* a single shot fires: callbacks of one name have the same delay and fire in
\* the order they were scheduled, the stale ones first
fire(sh, name) ==
    [sh EXCEPT ![name] = @ - 1,
               !.stale[name] = IF @ > 0 THEN @ - 1 ELSE 0]

\* stop has returned: every callback still pending was scheduled before it
outlive_stop(sh) ==
    [sh EXCEPT !.stale = [record_single_frame |-> sh.record_single_frame,
                          pause_after_single_frame |-> sh.pause_after_single_frame]]

\* everything outside the recording, and the question of clear_frames
notRec == <<settingsVars, cmdVars, detVars, saveVars, saveReq, question>>

\* RecordingManager.start, called by _start_recording in the READY mode.  The
\* call record of a successful start keeps the number of grabs made before
\* it: the new capture task makes the grabs after that number.
RecordingManager_start ==
    \E rect \in Rects :
        /\ mainPc = "idle"
        /\ mode = "ready"
        /\ IF TooSmall(rect)
           THEN /\ rcall' = <<[op |-> "start", rect |-> rect, ret |-> FALSE]>>
                /\ UNCHANGED <<mwFrames, rangeSlider, pvFrames, mode, fbf, timer>>
           ELSE /\ mwFrames' = << >>
                /\ rangeSlider' = set_frames(rangeSlider, << >>)
                /\ pvFrames' = << >>
                /\ mode' = "recording"
                /\ fbf' = FALSE
                /\ timer' = <<RecordingTimer>>
                /\ rcall' = <<[op |-> "start", rect |-> rect, ret |-> TRUE,
                               base |-> nextId]>>
        /\ UNCHANGED <<notRec, pendingFrames, shots, nextId, mainPc>>

\* RecordingManager.start_frame_by_frame up to timer.start(), or to its end
\* where no timer is created.  The call record of a call that reuses the
\* timer keeps the mode, the flag, the buffer and the number of grabs it
\* found, and whether no frame was under way (none queued, none being grabbed).
RecordingManager_start_frame_by_frame ==
    \E rect \in Rects :
        /\ mainPc = "idle"
        /\ IF TooSmall(rect)
           THEN /\ rcall' = <<[op |-> "start_frame_by_frame", rect |-> rect, ret |-> FALSE]>>
                /\ UNCHANGED <<mwFrames, rangeSlider, pvFrames, mode, fbf, timer, shots, mainPc>>
           ELSE /\ IF ~fbf /\ mode = "ready"
                   THEN /\ mwFrames' = << >>
                        /\ rangeSlider' = set_frames(rangeSlider, << >>)
                        /\ pvFrames' = << >>
                   ELSE UNCHANGED <<mwFrames, rangeSlider, pvFrames>>
                /\ fbf' = TRUE
                /\ IF timer = << >> \/ mode = "ready"
                   THEN /\ shots.record_single_frame < MaxShots
                        /\ timer' = <<RecordingTimer>>
                        /\ mainPc' = "fbf_started"
                        /\ rcall' = <<[op |-> "start_frame_by_frame", rect |-> rect]>>
                        /\ UNCHANGED <<mode, shots>>
                   ELSE /\ rcall' = <<[op |-> "start_frame_by_frame", rect |-> rect,
                                       ret |-> TRUE, from |-> mode, flag |-> fbf,
                                       buffer |-> mwFrames, grabs |-> nextId,
                                       quiet |-> (pendingFrames = << >>
                                                    /\ timer[1].tpc # "grab")]>>
                        /\ IF mode = "paused"
                           THEN /\ shots.pause_after_single_frame < MaxShots
                                /\ timer' = <<[timer[1] EXCEPT !.is_paused = FALSE]>>
                                /\ mode' = "recording"
                                /\ shots' = singleShot(shots, "pause_after_single_frame")
                           ELSE UNCHANGED <<timer, mode, shots>>
                        /\ UNCHANGED mainPc
        /\ UNCHANGED <<notRec, pendingFrames, nextId>>

\* start_frame_by_frame after timer.start(): timer.pause(), the PAUSED mode
\* and the single shot of record_single_frame
RecordingManager_start_frame_by_frame_pause ==
    /\ mainPc = "fbf_started"
    /\ timer' = <<[timer[1] EXCEPT !.is_paused = TRUE]>>
    /\ mode' = "paused"
    /\ shots' = singleShot(shots, "record_single_frame")
    /\ rcall' = <<[rcall[1] EXCEPT !.op = "start_frame_by_frame"] @@ [ret |-> TRUE]>>
    /\ mainPc' = "idle"
    /\ UNCHANGED <<notRec, mwFrames, rangeSlider, pvFrames, fbf, pendingFrames, nextId>>

\* the single shot fires: record_single_frame
RecordingManager_record_single_frame ==
    /\ mainPc = "idle"
    /\ shots.record_single_frame > 0
    /\ IF timer # << >> /\ mode = "paused"
       THEN /\ shots.pause_after_single_frame < MaxShots
            /\ timer' = <<[timer[1] EXCEPT !.is_paused = FALSE]>>
            /\ mode' = "recording"
            /\ shots' = singleShot(fire(shots, "record_single_frame"),
                                    "pause_after_single_frame")
       ELSE /\ shots' = fire(shots, "record_single_frame")
            /\ UNCHANGED <<timer, mode>>
    /\ UNCHANGED <<notRec, mwFrames, rangeSlider, pvFrames, fbf, pendingFrames, nextId, rcall, mainPc>>

\* the single shot fires: _pause_after_single_frame
RecordingManager_pause_after_single_frame ==
    /\ mainPc = "idle"
    /\ shots.pause_after_single_frame > 0
    /\ shots' = fire(shots, "pause_after_single_frame")
    /\ IF timer # << >> /\ mode = "recording" /\ fbf
       THEN /\ timer' = <<[timer[1] EXCEPT !.is_paused = TRUE]>>
            /\ mode' = "paused"
       ELSE UNCHANGED <<timer, mode>>
    /\ UNCHANGED <<notRec, mwFrames, rangeSlider, pvFrames, fbf, pendingFrames, nextId, rcall, mainPc>>

\* _on_pause_clicked: resume() in the PAUSED mode, pause() in the RECORDING
\* mode, with and without the frame-by-frame flag
MainWindow_on_pause_clicked ==
    /\ mainPc = "idle"
    /\ timer # << >>
    /\ mode \in {"recording", "paused"}
    /\ IF mode = "paused"
       THEN /\ timer' = <<[timer[1] EXCEPT !.is_paused = FALSE]>>
            /\ mode' = "recording"
            /\ fbf' = FALSE
            /\ rcall' = <<[op |-> "resume"]>>
       ELSE /\ timer' = <<[timer[1] EXCEPT !.is_paused = TRUE]>>
            /\ mode' = "paused"
            /\ rcall' = <<[op |-> "pause"]>>
            /\ UNCHANGED fbf
    /\ UNCHANGED <<notRec, mwFrames, rangeSlider, pvFrames, pendingFrames, shots, nextId, mainPc>>

\* the fields of the RecordingManager
RecordingManager == [mode |-> mode, fbf |-> fbf, timer |-> timer]

\* RecordingManager.pause
pause(rm) ==
    IF rm.mode = "recording" /\ rm.timer # << >>
    THEN [rm EXCEPT !.timer = <<[rm.timer[1] EXCEPT !.is_paused = TRUE]>>,
                    !.mode = "paused"]
    ELSE rm

\* variant: a resume that does not test the mode
resume_anymode(rm) ==
    IF rm.timer # << >>
    THEN [rm EXCEPT !.timer = <<[rm.timer[1] EXCEPT !.is_paused = FALSE]>>,
                    !.mode = "recording",
                    !.fbf = FALSE]
    ELSE rm

\* variant: a resume that leaves the frame-by-frame flag set
resume_keepflag(rm) ==
    IF rm.mode = "paused" /\ rm.timer # << >>
    THEN [rm EXCEPT !.timer = <<[rm.timer[1] EXCEPT !.is_paused = FALSE]>>,
                    !.mode = "recording"]
    ELSE rm

\* RecordingManager.resume
resume(rm) ==
    IF rm.mode = "paused" /\ rm.timer # << >>
    THEN [rm EXCEPT !.timer = <<[rm.timer[1] EXCEPT !.is_paused = FALSE]>>,
                    !.mode = "recording",
                    !.fbf = FALSE]
    ELSE rm

\* a call of RecordingManager.pause() in whatever mode the session is in; the
\* call record keeps the mode it was made in
RecordingManager_pause ==
    /\ mainPc = "idle"
    /\ mode' = pause(RecordingManager).mode
    /\ fbf' = pause(RecordingManager).fbf
    /\ timer' = pause(RecordingManager).timer
    /\ rcall' = <<[op |-> "pause", from |-> mode]>>
    /\ UNCHANGED <<notRec, mwFrames, rangeSlider, pvFrames, pendingFrames, shots, nextId, mainPc>>

\* a call of RecordingManager.resume() in whatever mode the session is in; the
\* call record keeps the mode and the flag it found and the number of
\* _pause_after_single_frame callbacks still pending
RecordingManager_resume ==
    /\ mainPc = "idle"
    /\ mode' = resume(RecordingManager).mode
    /\ fbf' = resume(RecordingManager).fbf
    /\ timer' = resume(RecordingManager).timer
    /\ rcall' = <<[op |-> "resume", from |-> mode, flag |-> fbf,
                   pending |-> shots.pause_after_single_frame]>>
    /\ UNCHANGED <<notRec, mwFrames, rangeSlider, pvFrames, pendingFrames, shots, nextId, mainPc>>

\* RecordingManager.stop, called by _stop_recording in the RECORDING and
\* PAUSED modes, up to timer.wait()
RecordingManager_stop ==
    /\ mainPc = "idle"
    /\ mode \in {"recording", "paused"}
    /\ timer # << >>
    /\ timer' = <<[timer[1] EXCEPT !.is_running = FALSE]>>
    /\ mainPc' = "stop_wait"
    /\ UNCHANGED <<notRec, mwFrames, rangeSlider, pvFrames, mode, fbf, pendingFrames, shots,
                   nextId, rcall>>

\* timer.wait() returns once run() has ended; the rest of stop and of
\* _stop_recording
RecordingManager_stop_joined ==
    /\ mainPc = "stop_wait"
    /\ timer[1].tpc = "finished"
    /\ timer' = << >>
    /\ fbf' = FALSE
    /\ mode' = mode_after_stop(mwFrames)
    /\ rangeSlider' = IF mwFrames # << >> THEN set_frames(rangeSlider, mwFrames)
                      ELSE rangeSlider
    /\ pvFrames' = IF mwFrames # << >> THEN mwFrames ELSE pvFrames
    /\ shots' = outlive_stop(shots)
    /\ rcall' = <<[op |-> "stop"]>>
    /\ mainPc' = "idle"
    /\ UNCHANGED <<notRec, mwFrames, pendingFrames, nextId>>

\* the event loop delivers a queued frame_captured signal to add_frame
MainWindow_add_frame ==
    /\ mainPc = "idle"
    /\ pendingFrames # << >>
    /\ mwFrames' = Append(mwFrames, Head(pendingFrames))
    /\ pendingFrames' = Tail(pendingFrames)
    /\ UNCHANGED <<notRec, rangeSlider, pvFrames, mode, fbf, timer, shots, nextId, rcall, mainPc>>

\* RecordingTimer.run begins on the capture thread: self.is_running = True
RecordingTimer_run_begin ==
    /\ timer # << >>
    /\ timer[1].tpc = "starting"
    /\ timer' = <<[timer[1] EXCEPT !.is_running = TRUE, !.tpc = "loop"]>>
    /\ UNCHANGED <<notRec, mwFrames, rangeSlider, pvFrames, mode, fbf, pendingFrames, shots,
                   nextId, rcall, mainPc>>

\* the tests at the head of the loop: while self.is_running, if self.is_paused
\* (a paused thread sleeps and tests again)
RecordingTimer_run_loop ==
    /\ timer # << >>
    /\ timer[1].tpc = "loop"
    /\ ~timer[1].is_running \/ ~timer[1].is_paused
    /\ timer' = <<[timer[1] EXCEPT !.tpc = IF ~timer[1].is_running THEN "finished"
                                            ELSE "grab"]>>
    /\ UNCHANGED <<notRec, mwFrames, rangeSlider, pvFrames, mode, fbf, pendingFrames, shots,
                   nextId, rcall, mainPc>>

\* grabWindow and, for a pixmap that is not null, frame_captured.emit; then
\* the sleep to the next turn of the loop
RecordingTimer_run_grab ==
    \E null \in BOOLEAN :
        /\ timer # << >>
        /\ timer[1].tpc = "grab"
        /\ null \/ nextId < MaxCaptures
        /\ timer' = <<[timer[1] EXCEPT !.tpc = "loop"]>>
        /\ IF null
           THEN UNCHANGED <<pendingFrames, nextId>>
           ELSE /\ pendingFrames' = Append(pendingFrames, nextId + 1)
                /\ nextId' = nextId + 1
        /\ UNCHANGED <<notRec, mwFrames, rangeSlider, pvFrames, mode, fbf, shots, rcall, mainPc>>

(***************************************************************************)
(* CMDExecuter (src/core/cmd_executer.py): the registry of running         *)
(* processes, its lock, the threads that call it and the completion        *)
(* threads of asynchronous executions.                                     *)
(***************************************************************************)
MaxThreads == 2
MaxIds == 1
MaxProcesses == 2

Threads == 1..MaxThreads
ExecutionIds == 1..MaxIds
ReturnCodes == {0, 1}
\* return code of a process ended by process.kill()
Killed == 0 - 9

notCmd == <<settingsVars, detVars, saveVars, appVars>>

CmdInit ==
    /\ running_processes = [id \in ExecutionIds |-> << >>]
    /\ lock = << >>
    /\ processes = << >>
    /\ callers = [t \in Threads |-> [pc |-> "idle", call |-> << >>]]
    /\ returned = << >>

\* process.poll(): << >> (None) while the process runs, <<returncode>> afterwards
poll(p) == processes[p].returncode

\* the body of _cleanup_process, executed with the lock held
cleanup_process(rp, execution_id) == [rp EXCEPT ![execution_id] = << >>]

\* the call of thread t ends with the record r
Return(t, r) ==
    /\ callers' = [callers EXCEPT ![t] = [pc |-> "idle", call |-> << >>]]
    /\ returned' = <<[thread |-> t] @@ r>>

\* execute, lines 84-121: the test of the id and the Popen call; no lock is taken
CMDExecuter_execute ==
    \E t \in Threads, execution_id \in ExecutionIds, async_execution \in BOOLEAN,
       raise_on_error \in BOOLEAN, spawned \in BOOLEAN:
        LET call == [op |-> "execute", execution_id |-> execution_id,
                     async_execution |-> async_execution, raise_on_error |-> raise_on_error,
                     process |-> Len(processes) + 1, outcome |-> ""]
        IN  /\ callers[t].pc = "idle"
            /\ IF running_processes[execution_id] # << >>
               THEN /\ Return(t, [op |-> "execute", execution_id |-> execution_id,
                                               value |-> "ValueError"])
                    /\ UNCHANGED processes
               ELSE IF spawned
                    THEN /\ Len(processes) < MaxProcesses
                         /\ processes' = Append(processes, [execution_id |-> execution_id,
                                                            returncode |-> << >>,
                                                            thread |-> "none"])
                         /\ callers' = [callers EXCEPT ![t] = [pc |-> "register", call |-> <<call>>]]
                         /\ UNCHANGED returned
                    ELSE /\ callers' = [callers EXCEPT ![t] =
                                [pc |-> "except",
                                 call |-> <<[call EXCEPT !.process = 0, !.outcome = "spawn error"]>>]]
                         /\ UNCHANGED <<processes, returned>>
            /\ UNCHANGED <<running_processes, lock, notCmd>>

\* execute, lines 123-144: the process is registered under the lock; an asynchronous
\* execution then starts its completion thread
CMDExecuter_execute_register ==
    \E t \in Threads:
        /\ callers[t].pc = "register"
        /\ lock = << >>
        /\ LET c == callers[t].call[1]
           IN  /\ running_processes' = [running_processes EXCEPT ![c.execution_id] = <<c.process>>]
               /\ IF c.async_execution
                  THEN /\ processes' = [processes EXCEPT ![c.process].thread = "communicate"]
                       /\ callers' = [callers EXCEPT ![t].pc = "set_thread"]
                  ELSE /\ callers' = [callers EXCEPT ![t].pc = "communicate"]
                       /\ UNCHANGED processes
        /\ UNCHANGED <<lock, returned, notCmd>>

\* execute, lines 146-157: the thread is stored in the entry, which raises KeyError if the
\* entry is gone; otherwise the call returns the result of a running command
CMDExecuter_execute_set_thread ==
    \E t \in Threads:
        /\ callers[t].pc = "set_thread"
        /\ lock = << >>
        /\ LET c == callers[t].call[1]
           IN  IF running_processes[c.execution_id] # << >>
               THEN Return(t, [op |-> "execute", execution_id |-> c.execution_id,
                               value |-> "running"])
               ELSE /\ callers' = [callers EXCEPT ![t].pc = "except",
                                                  ![t].call = <<[c EXCEPT !.outcome = "KeyError"]>>]
                    /\ UNCHANGED returned
        /\ UNCHANGED <<running_processes, lock, processes, notCmd>>

\* execute, lines 160-172 and 185-187: communicate returns when the process has ended, or
\* the timeout expires and the process is killed
CMDExecuter_execute_communicate ==
    \E t \in Threads, expired \in BOOLEAN:
        /\ callers[t].pc = "communicate"
        /\ LET c == callers[t].call[1]
           IN  IF expired
               THEN /\ poll(c.process) = << >>
                    /\ processes' = [processes EXCEPT ![c.process].returncode = <<Killed>>]
                    /\ callers' = [callers EXCEPT ![t].pc = "cleanup",
                                                  ![t].call = <<[c EXCEPT !.outcome = "timeout"]>>]
               ELSE /\ poll(c.process) # << >>
                    /\ callers' = [callers EXCEPT ![t].pc = "cleanup",
                            ![t].call = <<[c EXCEPT !.outcome =
                                IF poll(c.process) = <<0>> THEN "success" ELSE "non-zero exit"]>>]
                    /\ UNCHANGED processes
        /\ UNCHANGED <<running_processes, lock, returned, notCmd>>

\* the exception a call ends with when raise_on_error is set, by outcome
Raised(outcome) ==
    CASE outcome = "non-zero exit" -> "CalledProcessError"
      [] outcome = "timeout" -> "TimeoutExpired"
      [] outcome = "KeyError" -> "KeyError"
      [] OTHER -> "OSError"

\* _cleanup_process, lines 396-400, called by a thread at one of its call sites: the lock
\* is acquired, the id deleted and the lock released; then the caller goes on
CMDExecuter_cleanup_process ==
    \E t \in Threads:
        /\ callers[t].pc \in {"cleanup", "except", "is_running_cleanup", "get_running_cleanup"}
        /\ lock = << >>
        /\ LET c == callers[t].call[1]
               Result(v) == [op |-> c.op, execution_id |-> c.execution_id, value |-> v]
           IN  /\ running_processes' = cleanup_process(running_processes, c.execution_id)
               /\ CASE callers[t].pc = "cleanup" ->
                            \* lines 175-183 and 190-204: a raise is caught at line 206
                            IF c.raise_on_error /\ c.outcome \in {"non-zero exit", "timeout"}
                            THEN /\ callers' = [callers EXCEPT ![t].pc = "except"]
                                 /\ UNCHANGED returned
                            ELSE Return(t, Result(c.outcome))
                      [] callers[t].pc = "except" ->
                            \* lines 206-221
                            Return(t, Result(IF c.raise_on_error THEN Raised(c.outcome)
                                                                  ELSE "error result"))
                      [] OTHER ->
                            \* lines 312-314 and 335
                            Return(t, Result("False"))
        /\ UNCHANGED <<lock, processes, notCmd>>

\* is_running, lines 304-314: with the lock held, an unknown id gives False and a live
\* process True; for a finished process _cleanup_process is called with the lock held
CMDExecuter_is_running ==
    \E t \in Threads, execution_id \in ExecutionIds:
        LET r == [op |-> "is_running", execution_id |-> execution_id, value |-> "False"]
        IN  /\ callers[t].pc = "idle"
            /\ lock = << >>
            /\ IF running_processes[execution_id] = << >>
               THEN Return(t, r) /\ UNCHANGED lock
               ELSE IF poll(running_processes[execution_id][1]) = << >>
                    THEN Return(t, [r EXCEPT !.value = "True"]) /\ UNCHANGED lock
                    ELSE /\ lock' = <<t>>
                         /\ callers' = [callers EXCEPT ![t] =
                                [pc |-> "is_running_cleanup",
                                 call |-> <<[op |-> "is_running", execution_id |-> execution_id]>>]]
                         /\ UNCHANGED returned
            /\ UNCHANGED <<running_processes, processes, notCmd>>

\* get_running_processes, lines 323-337: with the lock held, live processes are reported and
\* for a finished one _cleanup_process is called
CMDExecuter_get_running_processes ==
    \E t \in Threads:
        LET finished == {id \in ExecutionIds : /\ running_processes[id] # << >>
                                               /\ poll(running_processes[id][1]) # << >>}
            result == {id \in ExecutionIds : running_processes[id] # << >>} \ finished
        IN  /\ callers[t].pc = "idle"
            /\ lock = << >>
            /\ IF finished = {}
               THEN /\ Return(t, [op |-> "get_running_processes", result |-> result])
                    /\ UNCHANGED lock
               ELSE /\ lock' = <<t>>
                    /\ \E id \in finished:
                         callers' = [callers EXCEPT ![t] =
                            [pc |-> "get_running_cleanup",
                             call |-> <<[op |-> "get_running_processes", execution_id |-> id]>>]]
                    /\ UNCHANGED returned
            /\ UNCHANGED <<running_processes, processes, notCmd>>

\* handle_async_completion, lines 132-141, up to its call of _cleanup_process
CMDExecuter_handle_async_completion ==
    \E p \in DOMAIN processes, expired \in BOOLEAN:
        /\ processes[p].thread = "communicate"
        /\ IF expired
           THEN /\ poll(p) = << >>
                /\ processes' = [processes EXCEPT ![p].returncode = <<Killed>>,
                                                  ![p].thread = "cleanup"]
           ELSE /\ poll(p) # << >>
                /\ processes' = [processes EXCEPT ![p].thread = "cleanup"]
        /\ UNCHANGED <<running_processes, lock, callers, returned, notCmd>>

\* handle_async_completion: its call of _cleanup_process, lines 396-400
CMDExecuter_handle_async_cleanup ==
    \E p \in DOMAIN processes:
        /\ processes[p].thread = "cleanup"
        /\ lock = << >>
        /\ running_processes' = cleanup_process(running_processes, processes[p].execution_id)
        /\ processes' = [processes EXCEPT ![p].thread = "done"]
        /\ UNCHANGED <<lock, callers, returned, notCmd>>

\* the spawned command ends by itself
Process_exits ==
    \E p \in DOMAIN processes, code \in ReturnCodes:
        /\ poll(p) = << >>
        /\ processes' = [processes EXCEPT ![p].returncode = <<code>>]
        /\ UNCHANGED <<running_processes, lock, callers, returned, notCmd>>

(***************************************************************************)
(* Specifications                                                          *)
(***************************************************************************)
Init == SettingsInit /\ DetInit /\ SaveInit /\ SelInit /\ RecInit /\ CmdInit

SettingsNext ==
    \/ GifSettings_new
    \/ GifSettings_get_effective_num_colors
    \/ GifSettings_get_frame_duration_ms
    \/ GifSettings_drop

DetNext ==
    \/ FrameSimilarityDetector_new
    \/ FrameSimilarityDetector_is_similar_to_previous
    \/ FrameSimilarityDetector_reset

SaveNext ==
    \/ save_gif_from_frames
    \/ GifSaver_validate_inputs
    \/ GifSaver_get_save_filename
    \/ ProgressManager_create_dialog
    \/ GifSaver_process_frames_begin
    \/ ProgressManager_update_frame_progress
    \/ GifSaver_process_frame
    \/ GifSaver_process_frames_end
    \/ GifSaver_perform_save_check
    \/ ProgressManager_start_saving_phase
    \/ GifSaver_save_gif_file
    \/ GifSaver_perform_save_finish
    \/ MainWindow_save_gif_result

\* GifSettings objects constructed and read
SpecSettings == Init /\ [][SettingsNext]_vars

\* a FrameSimilarityDetector fed arbitrary sequences of processed frames
SpecDet == Init /\ [][DetNext]_vars

\* one save_gif_from_frames call from the main window, start to end
SpecSave == Init /\ [][SaveNext]_vars

SelectNext ==
    \/ MainWindow_recorded
    \/ RangeSlider_set_values
    \/ MainWindow_on_save_clicked
    \/ MainWindow_clear_frames

\* the selection of the frames to save from recordings of every length
SpecSelect == Init /\ [][SelectNext]_vars

RecNext ==
    \/ RecordingManager_start
    \/ RecordingManager_start_frame_by_frame
    \/ RecordingManager_start_frame_by_frame_pause
    \/ RecordingManager_record_single_frame
    \/ RecordingManager_pause_after_single_frame
    \/ MainWindow_on_pause_clicked
    \/ RecordingManager_pause
    \/ RecordingManager_resume
    \/ RecordingManager_stop
    \/ RecordingManager_stop_joined
    \/ MainWindow_add_frame
    \/ MainWindow_clear_frames
    \/ RecordingTimer_run_begin
    \/ RecordingTimer_run_loop
    \/ RecordingTimer_run_grab

\* recording sessions driven by the buttons of the main window
SpecRec == Init /\ [][RecNext]_vars

\* the first call of a session: start_frame_by_frame in the READY mode
FrameByFrame_start ==
    /\ mode = "ready"
    /\ rcall = << >>
    /\ RecordingManager_start_frame_by_frame

FbfNext ==
    \/ FrameByFrame_start
    \/ RecordingManager_start_frame_by_frame_pause
    \/ RecordingManager_record_single_frame
    \/ RecordingManager_pause_after_single_frame
    \/ MainWindow_add_frame
    \/ RecordingTimer_run_begin
    \/ RecordingTimer_run_loop
    \/ RecordingTimer_run_grab

\* one start_frame_by_frame from READY, its timer callbacks and the capture
\* thread, with no other user action
SpecFbf == Init /\ [][FbfNext]_vars

ModalNext ==
    \/ RecordingManager_start
    \/ RecordingManager_start_frame_by_frame
    \/ RecordingManager_start_frame_by_frame_pause
    \/ RecordingManager_record_single_frame
    \/ RecordingManager_pause_after_single_frame
    \/ RecordingManager_stop
    \/ RecordingManager_stop_joined
    \/ MainWindow_add_frame
    \/ MainWindow_clear_frames_question
    \/ MainWindow_clear_frames_answered
    \/ RecordingTimer_run_begin
    \/ RecordingTimer_run_loop
    \/ RecordingTimer_run_grab

\* a save of every frame of the range at 10 fps
PlainSave ==
    /\ rangeSlider.active_handle = << >>
    /\ MainWindow_on_save_clicked
    /\ saveReq'[1].skip_value = 1
    /\ "fps" \in DOMAIN saveReq'[1] => saveReq'[1].fps = 10

SliderNext ==
    \/ MainWindow_recorded
    \/ RangeSlider_mousePressEvent
    \/ RangeSlider_mouseMoveEvent
    \/ RangeSlider_mouseReleaseEvent
    \/ PlainSave
    \/ MainWindow_clear_frames

\* the trim range set with the mouse on recordings of every length
SpecSlider == Init /\ [][SliderNext]_vars

EditNext ==
    \/ RecordingManager_start
    \/ RecordingManager_start_frame_by_frame
    \/ RecordingManager_start_frame_by_frame_pause
    \/ RecordingManager_record_single_frame
    \/ RecordingManager_pause_after_single_frame
    \/ RecordingManager_stop
    \/ RecordingManager_stop_joined
    \/ MainWindow_add_frame
    \/ MainWindow_clear_frames
    \/ PreviewWidget_delete_current_frame
    \/ RecordingTimer_run_begin
    \/ RecordingTimer_run_loop
    \/ RecordingTimer_run_grab

\* sessions recorded, stopped, edited in the preview and cleared
SpecEdit == Init /\ [][EditNext]_vars

\* sessions begun and ended by the hotkeys and the record button, with the
\* question of clear_frames open while other events are handled
SpecModal == Init /\ [][ModalNext]_vars

CmdNext ==
    \/ CMDExecuter_execute
    \/ CMDExecuter_execute_register
    \/ CMDExecuter_execute_set_thread
    \/ CMDExecuter_execute_communicate
    \/ CMDExecuter_cleanup_process
    \/ CMDExecuter_is_running
    \/ CMDExecuter_get_running_processes
    \/ CMDExecuter_handle_async_completion
    \/ CMDExecuter_handle_async_cleanup
    \/ Process_exits

\* the command executer used by several threads
SpecCmd == Init /\ [][CmdNext]_vars

(***************************************************************************)
(* Claims about GifSettings, checked under SpecSettings                    *)
(***************************************************************************)
\* a / b rounded to the nearest integer, halves to the even neighbour (Python's round)
RoundDiv(a, b) ==
    LET q == a \div b
        r == a % b
    IN  IF 2 * r > b \/ (2 * r = b /\ q % 2 = 1) THEN q + 1 ELSE q

\* the effective_num_colors property has just been read from a live object
EffRead == gsObj # << >> /\ gsProp # << >> /\ gsProp[1] = "effective_num_colors"

\* 1 where the double product num_colors * (1 - lossy_level/10.0) falls just
\* below the integer that the exact product is, 0 elsewhere
FloatDeficit(n, l) ==
    IF \/ l = 8 /\ n % 5 = 0
       \/ l = 9 /\ n % 10 = 0
       \/ l = 3 /\ n \in {90, 170, 180}
    THEN 1 ELSE 0

\* C9 as stated: effective_num_colors is num_colors at lossy_level 0 and
\* otherwise max(2, round(num_colors * (1 - lossy_level/10))).
C9_RoundedPalette ==
    EffRead =>
        LET n == gsObj[1].num_colors
            l == gsObj[1].lossy_level
        IN  gsProp[2] = IF l = 0 THEN n ELSE Max(2, RoundDiv(n * (10 - l), 10))

\* C9 amended: effective_num_colors is num_colors at lossy_level 0 and
\* otherwise max(2, int(num_colors * (1 - lossy_level/10.0))): the product is
\* truncated, not rounded, so it is max(2, floor(num_colors*(10-lossy_level)/10)),
\* less one where the double product falls just below an integral exact value.
C9_TruncatedPalette ==
    EffRead =>
        LET n == gsObj[1].num_colors
            l == gsObj[1].lossy_level
        IN  gsProp[2] = IF l = 0 THEN n
                        ELSE Max(2, ((n * (10 - l)) \div 10) - FloatDeficit(n, l))

\* C9 witness: 255 colours at level 5 read as 127 (127.5 truncated), and
\* 100 colours at level 9 is a reachable input too
C9_Witness ==
    /\ EffRead
    /\ gsObj[1].num_colors = 255
    /\ gsObj[1].lossy_level = 5
    /\ gsProp[2] = 127

\* C10: for fixed num_colors the value read is non-increasing in lossy_level
\* (no lower level gives less, no higher level gives more), lies in
\* [2, num_colors], and for 256 colours is 256 at level 0 and 2 at level 10.
C10_MonotonePalette ==
    EffRead =>
        LET s == gsObj[1]
            E(l) == effective_num_colors([s EXCEPT !.lossy_level = l])
        IN  /\ \A l \in 0..10 : l <= s.lossy_level => E(l) >= gsProp[2]
            /\ \A l \in 0..10 : l >= s.lossy_level => E(l) <= gsProp[2]
            /\ 2 <= gsProp[2] /\ gsProp[2] <= s.num_colors
            /\ (s.num_colors = 256 /\ s.lossy_level = 0) => gsProp[2] = 256
            /\ (s.num_colors = 256 /\ s.lossy_level = 10) => gsProp[2] = 2

\* C10 witness: 256 colours at level 10 read as 2
C10_Witness ==
    /\ EffRead
    /\ gsObj[1].num_colors = 256
    /\ gsObj[1].lossy_level = 10
    /\ gsProp[2] = 2

(***************************************************************************)
(* Claims about FrameSimilarityDetector, checked under SpecDet             *)
(***************************************************************************)
\* a call of is_similar_to_previous has returned
DetCalled == det # << >> /\ dcall # << >>

\* the last call passed both hash short-circuits: there was a reference, the
\* candidate's fast hash differed from the reference's and its structural
\* hash equalled the reference's
ScorePath ==
    /\ DetCalled
    /\ dcall[1].pre.last_processed_image # << >>
    /\ <<calculate_image_hash(dcall[1].img)>> # dcall[1].pre.last_frame_hash
    /\ <<calculate_structural_hash(dcall[1].img, numpy)>> = dcall[1].pre.last_structural_hash

\* the detector's reference is the argument of the last call, with both hashes
ReferenceIsArgument ==
    /\ det[1].last_processed_image = <<dcall[1].img>>
    /\ det[1].last_frame_hash = <<calculate_image_hash(dcall[1].img)>>
    /\ det[1].last_structural_hash = <<calculate_structural_hash(dcall[1].img, numpy)>>
    /\ det[1].threshold = dcall[1].pre.threshold

\* C1: the first call on a fresh or reset detector returns false for every
\* frame and every threshold, and the frame becomes the reference.
C1_FirstFrameAccepted ==
    (DetCalled /\ dcall[1].pre.last_processed_image = << >>) =>
        (dcall[1].ret = FALSE /\ ReferenceIsArgument)

\* C1 witness: a first call at threshold 0.0
C1_Witness ==
    /\ DetCalled
    /\ dcall[1].pre.last_processed_image = << >>
    /\ dcall[1].pre.threshold = 0
    /\ dcall[1].ret = FALSE

\* C2: when a call submits the frame that the call before it submitted, it
\* returns true and leaves the detector as it was.
C2_RepeatedFrameIsDuplicate ==
    (DetCalled /\ dcall[1].prev = <<dcall[1].img>>) =>
        (dcall[1].ret = TRUE /\ det[1] = dcall[1].pre)

\* C2 witness: the repeated frame is not the reference (the call before
\* skipped it on its score) and the repetition is reported as a duplicate
C2_Witness ==
    /\ DetCalled
    /\ dcall[1].prev = <<dcall[1].img>>
    /\ dcall[1].pre.last_processed_image # <<dcall[1].img>>
    /\ <<calculate_image_hash(dcall[1].img)>> # dcall[1].pre.last_frame_hash
    /\ dcall[1].ret = TRUE

\* C3: past both hash short-circuits, a combined score >= threshold returns
\* true and leaves the reference image and both hashes unchanged; a combined
\* score < threshold returns false and makes the candidate the reference.
C3_ScoreDecides ==
    ScorePath =>
        IF combined_similarity(dcall[1].pre, dcall[1].img) >= dcall[1].pre.threshold
        THEN dcall[1].ret = TRUE /\ det[1] = dcall[1].pre
        ELSE dcall[1].ret = FALSE /\ ReferenceIsArgument

\* C3 witness: a candidate whose score equals the threshold is skipped
C3_Witness ==
    /\ ScorePath
    /\ combined_similarity(dcall[1].pre, dcall[1].img) = dcall[1].pre.threshold
    /\ dcall[1].pre.threshold > 0
    /\ dcall[1].ret = TRUE

\* a candidate scoring below the threshold on the score path was accepted
ScorePathAccepts ==
    /\ ScorePath
    /\ combined_similarity(dcall[1].pre, dcall[1].img) < dcall[1].pre.threshold
    /\ dcall[1].ret = FALSE

\* the last call passed the fast-hash test and stopped at the structural
\* hash: there was a reference and both hashes of the candidate differed from
\* the reference's
StructuralPath ==
    /\ DetCalled
    /\ dcall[1].pre.last_processed_image # << >>
    /\ <<calculate_image_hash(dcall[1].img)>> # dcall[1].pre.last_frame_hash
    /\ <<calculate_structural_hash(dcall[1].img, numpy)>> # dcall[1].pre.last_structural_hash

\* C22: a candidate whose fast hash and structural hash both differ from the
\* reference's is reported as different and becomes the reference, whatever
\* the threshold and whatever the weighted score would have been.
C22_StructuralChangeAccepted ==
    StructuralPath => (dcall[1].ret = FALSE /\ ReferenceIsArgument)

\* C22 witness: with numpy, at threshold 0.0, where every weighted score
\* reaches the threshold, a structurally different candidate is accepted and
\* replaces the reference
C22_Witness ==
    /\ StructuralPath
    /\ numpy
    /\ dcall[1].pre.threshold = 0
    /\ combined_similarity(dcall[1].pre, dcall[1].img) >= dcall[1].pre.threshold
    /\ dcall[1].ret = FALSE
    /\ det[1].last_processed_image = <<dcall[1].img>>
    /\ det[1] # dcall[1].pre

\* the metrics of the last call, reference against candidate
LastScores ==
    calculate_multiple_similarities(dcall[1].pre.last_processed_image[1], dcall[1].img)

\* metric values the weighted average is evaluated on besides the scores of
\* the frames: the ends and the middle of [0, 1]
MetricValues == {0, Scale \div 2, Scale}

\* the weighted average 0.2 pixel + 0.2 histogram + 0.3 structural + 0.3
\* local_changes over the total weight 1.0
WeightedAverage(sim) ==
    (2 * sim.pixel + 2 * sim.histogram + 3 * sim.structural + 3 * sim.local_changes) \div 10

\* C23: _combine_similarities is the weighted average with the weights 0.2,
\* 0.2, 0.3, 0.3 over the total weight 1.0; a metric that failed is in the
\* dictionary with 0.0 and its weight stays in the denominator; the result is
\* in [0, 1] when every metric is.
C23_WeightedAverage ==
    /\ \A p, h, st, l \in MetricValues :
          LET sim == [pixel |-> p, histogram |-> h, structural |-> st, local_changes |-> l]
          IN  /\ combine_similarities(sim) = WeightedAverage(sim)
              /\ combine_similarities(sim) \in 0..Scale
    /\ ScorePath =>
          /\ DOMAIN LastScores = DOMAIN Weights
          /\ \A k \in DOMAIN LastScores : LastScores[k] \in 0..Scale
          /\ LastScores.structural = 0
          /\ combined_similarity(dcall[1].pre, dcall[1].img) =
                 (2 * LastScores.pixel + 2 * LastScores.histogram
                    + 3 * LastScores.local_changes) \div 10
          /\ combined_similarity(dcall[1].pre, dcall[1].img) \in 0..((7 * Scale) \div 10)

\* C23 witness: a scored call whose structural metric failed while the three
\* other metrics are positive: the score is their weighted sum over 1.0
C23_Witness ==
    /\ ScorePath
    /\ LastScores.structural = 0
    /\ LastScores.pixel > 0
    /\ LastScores.histogram > 0
    /\ LastScores.local_changes > 0
    /\ combined_similarity(dcall[1].pre, dcall[1].img) = WeightedAverage(LastScores)
    /\ combined_similarity(dcall[1].pre, dcall[1].img) > 0

\* the last call computed the metrics and one of them raised: every call on
\* the score path reaches _calculate_structural_similarity, whose np.mean
\* raises NameError (np is bound in the nested detect_edges only)
MetricRaised == ScorePath /\ calculate_structural_similarity(dcall[1].pre.last_processed_image[1], dcall[1].img) = 0

\* C17: a call during which the similarity computation raised returns false
\* and keeps the frame, whatever the threshold.
C17_MetricErrorKeepsFrame ==
    MetricRaised => (dcall[1].ret = FALSE /\ ReferenceIsArgument)

\* the metric error left a score of 0.0 for that metric only: the candidate
\* still reached the threshold on the other metrics and was skipped
C17_MetricErrorSkipsFrame ==
    /\ MetricRaised
    /\ dcall[1].pre.threshold > 0
    /\ dcall[1].ret = TRUE
    /\ det[1] = dcall[1].pre

(***************************************************************************)
(* Claims about the save operation, checked under SpecSave                 *)
(***************************************************************************)
\* save_gif_from_frames has returned to the main window
Returned == ret.done

\* the call returned None
ReturnedNone == Returned /\ ret.value = << >>

\* the save got as far as _perform_save: settings built, frames accepted and
\* a file name chosen
SaveStarted == gsObj # << >> /\ frames # << >> /\ filename # << >>

\* frame i of the input converted and processed under the settings of the save
Processed(i) == process_image(qimage_to_pil(frames[i]), gsObj[1])

\* some input frame cannot be converted
SomeFrameFails == \E i \in 1..Len(frames) : qimage_to_pil_fails(frames[i])

\* the first cancel request arrived while frames were still to be examined
RequestedInProcessing == reqAt # << >> /\ reqAt[1].phase = "processing"

\* the message box of a frame that failed to convert or process
FrameErrorBox(i) ==
    Critical("Error", <<"Unexpected error during save", "Failed to process frame", i>>)

\* the message box of an encoder failure
EncodeErrorBox ==
    Critical("Error", <<"Unexpected error during save", "Failed to save GIF file">>)

\* the save ended because a frame or the encoder failed
Failed == Returned /\ why \in {"process_error", "encode_error"}

\* the save ended because a test of the dialog saw the cancel
Cancelled == Returned /\ why = "cancelled"

\* C4: with similarity skipping disabled, no cancel request and no frame that
\* fails, a save over N frames that has passed the encoder made exactly one
\* encoder call, with the N processed frames in input order.
C4_EncoderGetsEveryFrame ==
    (/\ SaveStarted
     /\ ~gsObj[1].enable_similarity_skip
     /\ reqAt = << >>
     /\ ~SomeFrameFails
     /\ pc \in {"post_save", "returned", "done"}) =>
        /\ Len(encoder) = 1
        /\ encoder[1].images = [i \in 1..Len(frames) |-> Processed(i)]
        /\ encoder[1].filename = filename[1]
        /\ Len(encoder[1].images) = Len(frames)

\* C4 witness: a save of MaxFrames different frames without similarity
\* skipping that returned the file name
C4_Witness ==
    /\ pc = "done"
    /\ SaveStarted
    /\ ~gsObj[1].enable_similarity_skip
    /\ Len(frames) = MaxFrames
    /\ frames[1] # frames[2]
    /\ reqAt = << >>
    /\ ret.value = <<FileName>>
    /\ Len(encoder) = 1
    /\ Len(encoder[1].images) = MaxFrames
    /\ file # << >>

\* C5 as stated: a cancel requested during the processing phase always ends
\* in the Cancelled outcome (None returned, no message box), no frame is
\* converted after the poll that observes it, the encoder is never invoked
\* and no file is created.
C5_CancelAlwaysCancelled ==
    RequestedInProcessing =>
        /\ encoder = << >>
        /\ file = << >>
        /\ (obsAt # << >> => converted = obsAt[1])
        /\ (Returned => (ret.value = << >> /\ msgs = << >>))

\* C5 amended: after a cancel requested during the processing phase at most
\* the one frame in flight is still converted, none after the poll that
\* observes the request, the encoder is never invoked and no file is created;
\* None is returned, without a message box when a poll observed the request,
\* and with the error box of the frame in flight when that frame failed
\* before any poll.
C5_CancelStopsProcessing ==
    RequestedInProcessing =>
        /\ encoder = << >>
        /\ file = << >>
        /\ converted <= reqAt[1].converted + 1
        /\ (obsAt # << >> => converted = obsAt[1])
        /\ (Returned =>
              /\ ret.value = << >>
              /\ IF obsAt # << >>
                 THEN msgs = << >> /\ Cancelled
                 ELSE /\ msgs = <<FrameErrorBox(reqAt[1].converted + 1)>>
                      /\ qimage_to_pil_fails(frames[reqAt[1].converted + 1])
                      /\ Failed)

\* C5 witness: the cancel arrives while frame 1 of 2 is in progress, the next
\* poll observes it and frame 2 is never converted
C5_Witness ==
    /\ pc = "done"
    /\ RequestedInProcessing
    /\ reqAt[1].converted = 0
    /\ obsAt = <<1>>
    /\ converted = 1
    /\ Len(frames) = 2
    /\ ret.value = << >>
    /\ msgs = << >>
    /\ encoder = << >>
    /\ file = << >>
    /\ status = <<"restored">>

\* the cancel arrived during frame 1, which then failed to convert
C5_InFlightFailure ==
    /\ Returned
    /\ RequestedInProcessing
    /\ obsAt = << >>
    /\ msgs # << >>

\* C6 as stated: the value the caller receives after a failure differs from
\* the value it receives after a cancellation (None), and a cancellation
\* shows no error.
C6_CancelDistinctFromFailure ==
    /\ (Cancelled => (ret.value = << >> /\ msgs = << >>))
    /\ (Failed => ret.value # << >>)

\* C6 amended: a cancellation returns None and shows no message box; a
\* processing or encoding failure returns None as well and differs only by
\* the error box it shows; the main window restores its status label in both
\* cases.
C6_CancelSilentFailureShown ==
    /\ (Cancelled => (ret.value = << >> /\ msgs = << >>))
    /\ (Failed =>
          /\ ret.value = << >>
          /\ Len(msgs) = 1
          /\ msgs[1].kind = "critical"
          /\ msgs[1].title = "Error")
    /\ ((Cancelled \/ Failed) /\ pc = "done" => status = <<"restored">>)

\* C6 witness: an encoder failure after every frame was processed, reported
\* by an error box and answered with None
C6_Witness ==
    /\ pc = "done"
    /\ Failed
    /\ Len(encoder) = 1
    /\ msgs = <<EncodeErrorBox>>
    /\ ret.value = << >>
    /\ status = <<"restored">>

\* a cancellation that has returned
C6_CancelReturned ==
    /\ pc = "done"
    /\ Cancelled
    /\ converted > 0

\* the save ended with no processed frame, without any cancel request and
\* without a frame or encoder failure
ZeroFramesSurvive ==
    /\ Returned
    /\ gsObj # << >>
    /\ reqAt = << >>
    /\ ~Failed
    /\ why # "dialog_dismissed"
    /\ processed_images = << >>

\* C7 as stated: when zero processed frames survive, an error is shown, the
\* value returned differs from the None of a cancellation and no file is
\* written.
C7_ZeroFramesReported ==
    ZeroFramesSurvive =>
        /\ msgs # << >>
        /\ ret.value # << >>
        /\ file = << >>

\* C7 amended: zero processed frames survive only when the frame list is
\* empty (processing a non-empty list keeps at least its first frame); the
\* empty list is rejected before the file dialog with the error box
\* "No frames to save!", None is returned as after a cancellation, the
\* encoder is not invoked and no file is written.
C7_EmptyInputRejected ==
    /\ ZeroFramesSurvive =>
          /\ frames = << >>
          /\ msgs = <<Critical("Error", <<"No frames to save!">>)>>
          /\ ret.value = << >>
          /\ filename = << >>
          /\ pm = << >>
          /\ encoder = << >>
          /\ file = << >>
    /\ (procRet # << >> => procRet[1] # << >>)
    /\ (Returned /\ frames = << >> /\ gsObj # << >> => ZeroFramesSurvive)

\* C7 witness: a save of the empty frame list has returned
C7_Witness ==
    /\ pc = "done"
    /\ ZeroFramesSurvive
    /\ frames = << >>
    /\ msgs # << >>
    /\ ret.value = << >>

\* identical frames at threshold 0.0: the first frame survives
C7_OneFrameSurvives ==
    /\ pc = "done"
    /\ gsObj # << >>
    /\ gsObj[1].enable_similarity_skip
    /\ gsObj[1].similarity_threshold = 0
    /\ Len(frames) = MaxFrames
    /\ skipped_count = MaxFrames - 1
    /\ Len(encoder) = 1
    /\ Len(encoder[1].images) = 1

\* a field of the arguments is out of the range the settings accept
OutOfRange(a) ==
    \/ a.fps <= 0
    \/ a.scale_factor <= 0 \/ a.scale_factor > 100
    \/ a.num_colors < 2 \/ a.num_colors > 256
    \/ a.skip_value < 1
    \/ a.lossy_level < 0 \/ a.lossy_level > 10
    \/ a.disposal_method < 0 \/ a.disposal_method > 3
    \/ a.similarity_threshold < 0 \/ a.similarity_threshold > Scale

\* C8: arguments with any field out of range make the construction of
\* GifSettings fail with a validation error; save_gif_from_frames then shows
\* it and returns None before the file dialog, before any frame is converted
\* or processed and before any file is written.
C8_InvalidSettingsRejected ==
    (svArgs # << >> /\ OutOfRange(svArgs[1])) =>
        /\ gsObj = << >>
        /\ gsErr # ""
        /\ Returned
        /\ ret.value = << >>
        /\ msgs = <<Critical("Invalid Settings", gsErr)>>
        /\ filename = << >>
        /\ pm = << >> /\ dialog = << >>
        /\ converted = 0
        /\ processed_images = << >>
        /\ det = << >>
        /\ encoder = << >>
        /\ file = << >>

\* C8 witness: a similarity_threshold of 1.5 with frames to save
C8_Witness ==
    /\ pc = "done"
    /\ svArgs # << >>
    /\ svArgs[1].similarity_threshold = 1500
    /\ svArgs[1].num_colors = 256
    /\ frames # << >>
    /\ msgs = <<Critical("Invalid Settings", "Similarity threshold must be between 0 and 1")>>
    /\ ret.value = << >>

\* the duration int(1000 / fps) * skip_value of the settings of the save
TruncatedDuration == (1000 \div gsObj[1].fps) * gsObj[1].skip_value

\* C11 as stated: the duration passed to the encoder is
\* round(1000/fps) * stride milliseconds.
C11_RoundedDuration ==
    \A i \in 1..Len(encoder) :
        encoder[i].duration = RoundDiv(1000, gsObj[1].fps) * gsObj[1].skip_value

\* C11 amended: the duration passed to the encoder is int(1000/fps) * stride
\* milliseconds, the quotient truncated and not rounded, and the call carries
\* this one number for all the frames it encodes.
C11_TruncatedDuration ==
    \A i \in 1..Len(encoder) :
        /\ encoder[i].duration = TruncatedDuration
        /\ encoder[i].duration \in Nat
        /\ encoder[i].duration >= gsObj[1].skip_value

\* C11 witness: two frames encoded at fps 7 and stride 2 with 284 ms each
C11_Witness ==
    /\ Len(encoder) = 1
    /\ gsObj[1].fps = 7
    /\ gsObj[1].skip_value = 2
    /\ encoder[1].duration = 284
    /\ Len(encoder[1].images) = 2

(***************************************************************************)
(* Claims about the selection of frames, checked under SpecSelect          *)
(***************************************************************************)
\* the last save click handed frames to _save_gif
SaveRequested == saveReq # << >> /\ "frames" \in DOMAIN saveReq[1]

\* the number of buffer frames in the range of the last save click
RangeLength == saveReq[1].end - saveReq[1].start + 1

\* the declared playback time of the frames handed over when all are encoded
TotalDuration == Len(saveReq[1].frames) * saveReq[1].duration

\* C12 as stated: a range of n frames saved with a stride s dividing n has the
\* total declared duration n * round(1000/fps), whatever s is.
C12_RoundedTotalDuration ==
    (SaveRequested /\ RangeLength % saveReq[1].skip_value = 0) =>
        TotalDuration = RangeLength * RoundDiv(1000, saveReq[1].fps)

\* C12 amended: a range of n frames saved with a stride s dividing n has the
\* total declared duration n * int(1000/fps), whatever s is: n/s frames of
\* int(1000/fps) * s milliseconds each; at fps 10 and n = 20 this is 2000 ms.
C12_TruncatedTotalDuration ==
    (SaveRequested /\ RangeLength % saveReq[1].skip_value = 0) =>
        /\ Len(saveReq[1].frames) * saveReq[1].skip_value = RangeLength
        /\ saveReq[1].duration = (1000 \div saveReq[1].fps) * saveReq[1].skip_value
        /\ TotalDuration = RangeLength * (1000 \div saveReq[1].fps)
        /\ (saveReq[1].fps = 10 /\ RangeLength = 20 => TotalDuration = 2000)

\* C12 witness: 20 frames at fps 10 and stride 2 give 10 frames of 200 ms
C12_Witness ==
    /\ SaveRequested
    /\ Len(mwFrames) = 20
    /\ RangeLength = 20
    /\ saveReq[1].fps = 10
    /\ saveReq[1].skip_value = 2
    /\ Len(saveReq[1].frames) = 10
    /\ saveReq[1].duration = 200
    /\ TotalDuration = 2000

\* C15: the frames handed to the save are buffer[start], buffer[start+stride],
\* ... for all indices <= end, in order; with 0 <= start <= end < len(buffer),
\* which the range slider maintains for a non-empty buffer, the selection is
\* not empty and begins with buffer[start].
C15_SelectionIsStridedRange ==
    /\ mwFrames # << >> =>
          /\ 0 <= rangeSlider.start_value
          /\ rangeSlider.start_value <= rangeSlider.end_value
          /\ rangeSlider.end_value < Len(mwFrames)
    /\ (saveReq # << >> /\ mwFrames # << >>) =>
          /\ SaveRequested
          /\ LET r == saveReq[1]
                 count == (r.end - r.start) \div r.skip_value + 1
             IN  /\ Len(r.frames) = count
                 /\ \A j \in 1..count :
                       /\ r.start + (j - 1) * r.skip_value <= r.end
                       /\ r.frames[j] = mwFrames[r.start + (j - 1) * r.skip_value + 1]
                 /\ r.start + count * r.skip_value > r.end
                 /\ r.frames[1] = mwFrames[r.start + 1]

\* C15 witness: frames 2..8 of a longer recording with stride 3 give the
\* frames at indices 2, 5 and 8
C15_Witness ==
    /\ SaveRequested
    /\ Len(mwFrames) > 9
    /\ saveReq[1].start = 2
    /\ saveReq[1].end = 8
    /\ saveReq[1].skip_value = 3
    /\ saveReq[1].frames = <<mwFrames[3], mwFrames[6], mwFrames[9]>>

(***************************************************************************)
(* Claims about recording, checked under SpecRec and SpecFbf               *)
(***************************************************************************)
\* this step is the return of a start or start_frame_by_frame call that was
\* given a rectangle of non-positive width or height
RejectedStartStep ==
    /\ rcall' # rcall
    /\ rcall'[1].op \in {"start", "start_frame_by_frame"}
    /\ "ret" \in DOMAIN rcall'[1]
    /\ (rcall'[1].rect.w <= 0 \/ rcall'[1].rect.h <= 0)

\* C13: start and start_frame_by_frame with a rectangle of non-positive
\* width or height return false and leave the mode, the frame-by-frame flag,
\* the frame buffer and the capture task unchanged; no thread is created.
C13_SmallRectRejected ==
    [][RejectedStartStep =>
          /\ rcall'[1].ret = FALSE
          /\ mode' = mode
          /\ fbf' = fbf
          /\ mwFrames' = mwFrames
          /\ timer' = timer
          /\ pendingFrames' = pendingFrames
          /\ shots' = shots
          /\ mainPc' = "idle"]_vars

\* C13 witness: start was refused in the READY mode for a rectangle of height 0
C13_Witness ==
    /\ rcall # << >>
    /\ rcall[1].op = "start"
    /\ rcall[1].rect = [w |-> 2, h |-> 0]
    /\ rcall[1].ret = FALSE
    /\ mode = "ready"
    /\ timer = << >>

\* start_frame_by_frame was refused while a recording was paused with frames
C13_RejectedWhilePaused ==
    /\ rcall # << >>
    /\ rcall[1].op = "start_frame_by_frame"
    /\ rcall[1].rect = [w |-> 0, h |-> 2]
    /\ rcall[1].ret = FALSE
    /\ mode = "paused"
    /\ timer # << >>
    /\ mwFrames # << >>

\* this step is the return of stop
StopReturnStep == rcall' # rcall /\ rcall'[1].op = "stop"

\* C14: when stop returns, the mode is Editing if the frame buffer holds at
\* least one frame and Ready if it is empty; the capture thread was told to
\* stop and has ended, the timer is dropped and the frame-by-frame flag is
\* cleared.
C14_StopMode ==
    [][StopReturnStep =>
          /\ mode' = IF Len(mwFrames') >= 1 THEN "editing" ELSE "ready"
          /\ ~timer[1].is_running
          /\ timer[1].tpc = "finished"
          /\ timer' = << >>
          /\ fbf' = FALSE
          /\ mwFrames' = mwFrames]_vars

\* C14 witness: stop returned with frames in the buffer, in the Editing mode
C14_Witness ==
    /\ rcall # << >>
    /\ rcall[1].op = "stop"
    /\ mwFrames # << >>
    /\ mode = "editing"
    /\ timer = << >>
    /\ ~fbf

\* stop returned with an empty buffer, in the Ready mode
C14_StoppedEmpty ==
    /\ rcall # << >>
    /\ rcall[1].op = "stop"
    /\ mwFrames = << >>
    /\ mode = "ready"
    /\ timer = << >>

\* a frame captured before stop is delivered after it, in the Ready mode
C14_LateFrame ==
    /\ rcall # << >>
    /\ rcall[1].op = "stop"
    /\ mode = "ready"
    /\ mwFrames # << >>

\* start_frame_by_frame has returned true and its single-step cycle has not
\* begun: record_single_frame is still to fire
CycleNotBegun ==
    \/ mainPc = "fbf_started"
    \/ (rcall # << >> /\ "ret" \in DOMAIN rcall[1] /\ rcall[1].ret
          /\ shots.record_single_frame > 0)

\* the single-step cycle is over: both callbacks have fired, the thread is
\* back at the head of its loop and every captured frame was delivered
CycleOver ==
    /\ rcall # << >> /\ "ret" \in DOMAIN rcall[1] /\ rcall[1].ret
    /\ mainPc = "idle"
    /\ shots.record_single_frame = 0
    /\ shots.pause_after_single_frame = 0
    /\ timer # << >> /\ timer[1].tpc = "loop" /\ timer[1].is_paused
    /\ pendingFrames = << >>

\* C20: after start_frame_by_frame from Ready no frame is captured before the
\* single-step cycle begins, and when the cycle is over exactly one frame was
\* appended to the buffer and the session is Paused with the frame-by-frame
\* flag set, under every interleaving of the capture thread and the callbacks.
C20_ExactlyOneFrame ==
    /\ CycleNotBegun => (nextId = 0 /\ timer[1].tpc \in {"starting", "loop"})
    /\ CycleOver => (Len(mwFrames) = 1 /\ nextId = 1 /\ mode = "paused" /\ fbf)

\* the cycle is over with exactly one frame
C20_OneFrame == CycleOver /\ Len(mwFrames) = 1 /\ nextId = 1

\* the cycle is over and ended Paused with the flag set
C20_EndsPaused == CycleOver => (mode = "paused" /\ fbf)

(***************************************************************************)
(* Further claims about the save operation, checked under SpecSave         *)
(***************************************************************************)
\* the position in the input of the first frame that cannot be converted
FirstFailing ==
    CHOOSE i \in 1..Len(frames) :
        /\ qimage_to_pil_fails(frames[i])
        /\ \A j \in 1..(i - 1) : ~qimage_to_pil_fails(frames[j])

\* C16: when converting or processing frame i fails, the save is aborted at
\* that frame: no later frame is converted, the encoder is never invoked, no
\* file is written, and an error box naming the frame is shown and None
\* returned.
C16_FrameFailureAborts ==
    /\ (SaveStarted /\ SomeFrameFails) => converted <= FirstFailing
    /\ (SaveStarted /\ SomeFrameFails /\ converted = FirstFailing) =>
          /\ Returned
          /\ ret.value = << >>
          /\ msgs = <<FrameErrorBox(FirstFailing)>>
          /\ idx = FirstFailing - 1
          /\ Len(processed_images) + skipped_count = FirstFailing - 1
          /\ procRet = << >>
          /\ encoder = << >>
          /\ file = << >>
          /\ dialog = << >>
    /\ (Returned /\ why = "process_error") =>
          (SaveStarted /\ SomeFrameFails /\ converted = FirstFailing)

\* C16 witness: the second of two frames fails after the first was processed
C16_Witness ==
    /\ pc = "done"
    /\ Len(frames) = 2
    /\ ~qimage_to_pil_fails(frames[1])
    /\ qimage_to_pil_fails(frames[2])
    /\ converted = 2
    /\ Len(processed_images) = 1
    /\ msgs = <<FrameErrorBox(2)>>
    /\ encoder = << >>
    /\ file = << >>
    /\ ret.value = << >>

\* the progress values 0..n in increasing order
Counting(n) == [i \in 1..(n + 1) |-> i - 1]

\* the dialog shows the label of the writing phase
Writing == dialog # << >> /\ dialog[1].label = <<"Writing GIF file...">>

\* what holds of the progress value in every state of a save
ProgressInRange ==
    pm # << >> =>
        /\ pm[1].total_steps = Len(frames) + 1
        /\ pm[1].current_step \in 0..pm[1].total_steps
        /\ (dialog # << >> =>
              /\ dialog[1].maximum = pm[1].total_steps
              /\ dialog[1].value = pm[1].current_step)
        /\ Len(cbLog) <= Len(frames) + 1
        /\ cbLog = SubSeq(Counting(Len(frames)), 1, Len(cbLog))
        /\ (pc \in {"process_begin", "poll", "process", "final_update"} =>
              pm[1].current_step = IF cbLog = << >> THEN 0 ELSE cbLog[Len(cbLog)])
        /\ (Writing =>
              /\ idx = Len(frames)
              /\ converted = Len(frames)
              /\ cbLog = Counting(Len(frames))
              /\ pm[1].current_step = Len(frames))
        /\ (pm[1].current_step = pm[1].total_steps =>
              /\ Len(encoder) = 1
              /\ file = <<encoder[1]>>
              /\ cbLog = Counting(Len(frames))
              /\ why = "saved")

\* a step of the save never lowers the progress value
ProgressStep ==
    (pm # << >> /\ pm' # << >>) =>
        /\ pm'[1].current_step >= pm[1].current_step
        /\ pm'[1].total_steps = pm[1].total_steps

\* C18: over a save of N frames the progress value never decreases and never
\* exceeds total_steps = N + 1; it takes the values 0..N in order during
\* processing, the writing label is shown only at value N after all N frames
\* were examined, and N + 1 is reached only after the encoder has written
\* the file.
C18_ProgressMonotone == []ProgressInRange /\ [][ProgressStep]_vars

\* C18 witness: a finished save of MaxFrames frames, one of them skipped as
\* similar, that went through every progress value up to N + 1
C18_Witness ==
    /\ pc = "done"
    /\ pm # << >>
    /\ Len(frames) = MaxFrames
    /\ skipped_count = 1
    /\ cbLog = Counting(MaxFrames)
    /\ pm[1].current_step = MaxFrames + 1
    /\ Len(encoder) = 1
    /\ file # << >>

\* the positions of the save at which the next statement tests the dialog:
\* the head of an iteration, the final update, line 581 of _perform_save,
\* start_saving_phase, the head of _save_gif_file and the test after it
PollPositions ==
    {"poll", "final_update", "after_process", "start_saving", "save_file", "post_save"}

\* the first cancel request arrived before the last test of the flag, the
\* one at the head of _save_gif_file
RequestedBeforeEncode == reqAt # << >> /\ reqAt[1].phase # "finishing"

\* what holds in every state of a save with respect to the cancel flag
CancelPolled ==
    /\ (pc = "process" =>
          /\ Len(cbLog) = converted + 1
          /\ cbLog[Len(cbLog)] = idx
          /\ obsAt = << >>)
    /\ (encoder # << >> => ~RequestedBeforeEncode /\ obsAt = << >>)
    /\ (RequestedBeforeEncode =>
          /\ file = << >>
          /\ converted <= reqAt[1].converted + 1)
    /\ (obsAt # << >> =>
          /\ RequestedBeforeEncode
          /\ converted = obsAt[1]
          /\ (Returned => (Cancelled /\ ret.value = << >> /\ msgs = << >>)))

\* a step taken from a poll position while the flag is set observes the flag
\* and neither converts a frame nor calls the encoder
PollStep ==
    (pc \in PollPositions /\ is_cancelled(dialog)) =>
        /\ obsAt' # << >>
        /\ converted' = converted
        /\ encoder' = encoder
        /\ pc' \in {"after_process", "post_save", "returned"}

\* C19: the cancel flag is tested at the head of every iteration and again
\* before the encoder call; once it is set before one of these tests the
\* encoder is never called and the save ends Cancelled, and at most one frame
\* is converted between the request and the test that observes it.
C19_PolledEveryIteration == []CancelPolled /\ [][PollStep]_vars

\* C19 witness: the cancel arrives in the writing phase, after the last frame
\* was processed; the test at the head of _save_gif_file observes it, the
\* encoder is not called and the save ends Cancelled
C19_Witness ==
    /\ pc = "done"
    /\ reqAt # << >>
    /\ reqAt[1].phase = "writing"
    /\ obsAt = <<Len(frames)>>
    /\ converted = Len(frames)
    /\ Len(frames) = MaxFrames
    /\ encoder = << >>
    /\ file = << >>
    /\ Cancelled
    /\ msgs = << >>

(***************************************************************************)
(* Claims about the modes of a session, checked under SpecRec              *)
(***************************************************************************)
\* the mode changes of Ready -> Recording <-> Paused -> Editing -> Ready
ModeCycle ==
    {<<"ready", "recording">>, <<"ready", "paused">>,
     <<"recording", "paused">>, <<"paused", "recording">>,
     <<"recording", "editing">>, <<"paused", "editing">>,
     <<"editing", "ready">>}

\* C21: every change of the mode is one of the cycle Ready -> Recording <->
\* Paused -> Editing -> Ready: Recording and Paused are entered from Ready or
\* from each other, Editing from Recording or Paused, and Editing is left
\* to Ready only.
C21_ModeCycle == [][mode' # mode => <<mode, mode'>> \in ModeCycle]_vars

\* the part of C21 about Editing: it is left only to Ready, with the buffer
\* emptied by the clear
C21_EditingLeftByClear ==
    [][(mode = "editing" /\ mode' # mode) => (mode' = "ready" /\ mwFrames' = << >>)]_vars

(***************************************************************************)
(* Further claims about the save operation, checked under SpecSave         *)
(***************************************************************************)
\* the encoder was called and wrote the file without error
EncoderFinished == Len(encoder) = 1 /\ file = <<encoder[1]>>

\* C24: once the encoder was called and finished without error, the save
\* ends Done and reports the file name, whatever cancel requests arrive
\* during or after the write; a save that ends Cancelled has called no
\* encoder and written no file.
C24_WriteNotCancellable ==
    /\ (EncoderFinished /\ Returned) =>
          /\ why = "saved"
          /\ ret.value = <<FileName>>
          /\ msgs = <<Information(FileName)>>
          /\ pm[1].current_step = pm[1].total_steps
          /\ (pc = "done" => status = <<"Saved", FileName>>)
    /\ Cancelled => (encoder = << >> /\ file = << >> /\ ret.value = << >>)

\* C24 witness: the cancel button is clicked during or after the write and
\* delivered by finish_saving; the save is Done and the file exists
C24_Witness ==
    /\ pc = "done"
    /\ reqAt # << >>
    /\ reqAt[1].phase = "finishing"
    /\ EncoderFinished
    /\ why = "saved"
    /\ ret.value = <<FileName>>
    /\ status = <<"Saved", FileName>>

\* the last value the progress callback received
LastProgress == cbLog[Len(cbLog)]

\* the final update of _process_frames was made: every frame was examined
AllExamined == pm # << >> /\ pm[1].current_step >= Len(frames)

\* C25 as stated: the callback is invoked once per frame examined and the
\* k-th invocation receives k, the 1-based count of the frames processed.
C25_OncePerFrameOneBased ==
    AllExamined => cbLog = [k \in 1..Len(frames) |-> k]

\* C25 amended: the callback is invoked at the head of every iteration,
\* before the frame is examined, with the number of frames examined so far
\* (0 for the first frame), and once more after the last frame with
\* frame_count: N + 1 invocations with the values 0..N for N frames, kept or
\* skipped alike.  A callback that raises changes nothing: the save fails
\* only on a frame or in the encoder.
C25_CalledBeforeEachFrame ==
    /\ Len(cbLog) <= Len(frames) + 1
    /\ cbLog = SubSeq(Counting(Len(frames)), 1, Len(cbLog))
    /\ converted <= Len(cbLog)
    /\ Len(cbLog) <= converted + 1
    /\ (pc = "process" => LastProgress = converted)
    /\ (AllExamined =>
          /\ cbLog = Counting(Len(frames))
          /\ converted = Len(frames)
          /\ Len(processed_images) + skipped_count = Len(frames))
    /\ ((cbLog # << >> /\ ~Returned) =>
          status = IF progress_callback = <<"raises">> THEN <<"idle">>
                   ELSE <<"Saving GIF", LastProgress>>)
    /\ ((Returned /\ why = "process_error") => qimage_to_pil_fails(frames[converted]))
    /\ ((Returned /\ why = "encode_error") => (Len(encoder) = 1 /\ file # <<encoder[1]>>))

\* C25 witness: a save of MaxFrames frames with a callback that raises at
\* every invocation; one frame is skipped as similar, the callback was
\* invoked MaxFrames + 1 times and the file is written
C25_Witness ==
    /\ pc = "done"
    /\ progress_callback = <<"raises">>
    /\ Len(frames) = MaxFrames
    /\ skipped_count = 1
    /\ cbLog = Counting(MaxFrames)
    /\ why = "saved"
    /\ ret.value = <<FileName>>
    /\ file # << >>

(***************************************************************************)
(* Further claims about the recording session, checked under SpecRec       *)
(***************************************************************************)
\* the mode, the flag, the capture task and the buffer stay as they are
SessionUnchanged == UNCHANGED <<mode, fbf, timer, mwFrames>>

\* C26: pause() acts only in the Recording mode with a capture task, where it
\* pauses the task and enters Paused; resume() acts only in the Paused mode
\* with a capture task, where it resumes the task and enters Recording; any
\* other call leaves the mode, the frame-by-frame flag, the task's paused
\* flag and the buffer unchanged.
C26_PauseResumeGuarded ==
    [][/\ RecordingManager_pause =>
            IF mode = "recording" /\ timer # << >>
            THEN /\ mode' = "paused"
                 /\ timer'[1].is_paused
                 /\ UNCHANGED <<fbf, mwFrames>>
            ELSE SessionUnchanged
       /\ RecordingManager_resume =>
            IF mode = "paused" /\ timer # << >>
            THEN /\ mode' = "recording"
                 /\ ~timer'[1].is_paused
                 /\ mwFrames' = mwFrames
            ELSE SessionUnchanged]_vars

\* C26 witness: resume() was called in the Recording mode of a frame-by-frame
\* step: the flag is still set, the task runs and the buffer has its frame
C26_Witness ==
    /\ rcall # << >>
    /\ rcall[1].op = "resume"
    /\ "from" \in DOMAIN rcall[1]
    /\ rcall[1].from = "recording"
    /\ mode = "recording"
    /\ fbf
    /\ timer # << >>
    /\ ~timer[1].is_paused
    /\ mwFrames # << >>

\* pause() was called without effect in the Editing mode
C26_PauseInEditing ==
    /\ rcall = <<[op |-> "pause", from |-> "editing"]>>
    /\ mode = "editing"
    /\ timer = << >>
    /\ mwFrames # << >>

\* the last call was a successful start and its session is still running
StartedSession ==
    /\ rcall # << >>
    /\ rcall[1].op = "start"
    /\ rcall[1].ret
    /\ mode \in {"recording", "paused"}

\* C27: a successful start empties the buffer before it creates the capture
\* task and ends in the Recording mode with the frame-by-frame flag cleared,
\* so that every frame in the buffer of the running session was captured by
\* the capture task of that session.
C27_BufferOfOwnSession ==
    StartedSession =>
        /\ mode = "recording"
        /\ ~fbf
        /\ timer # << >>
        /\ \A i \in 1..Len(mwFrames) : mwFrames[i] > rcall[1].base

\* the step of a successful start: buffer emptied, new task, Recording mode
C27_StartClearsBuffer ==
    [][(rcall' # rcall /\ rcall'[1].op = "start" /\ rcall'[1].ret) =>
          /\ mwFrames' = << >>
          /\ timer' = <<RecordingTimer>>
          /\ mode' = "recording"
          /\ ~fbf']_vars

\* a frame grabbed by the capture task of the session before is in the
\* buffer of the running session
C27_ForeignFrame ==
    /\ StartedSession
    /\ mwFrames # << >>
    /\ mwFrames[1] <= rcall[1].base

\* the last call was start_frame_by_frame in the Paused mode with the flag
\* set, made while no frame was under way
StepCall ==
    /\ rcall # << >>
    /\ rcall[1].op = "start_frame_by_frame"
    /\ "from" \in DOMAIN rcall[1]
    /\ rcall[1].from = "paused"
    /\ rcall[1].flag
    /\ rcall[1].quiet

\* the cycle of that call is over: every callback has fired, the thread
\* sleeps paused at the head of its loop and every frame was delivered
StepOver ==
    /\ StepCall
    /\ mainPc = "idle"
    /\ shots.record_single_frame = 0
    /\ shots.pause_after_single_frame = 0
    /\ timer # << >>
    /\ timer[1].tpc = "loop"
    /\ timer[1].is_paused
    /\ pendingFrames = << >>

\* C28: start_frame_by_frame in the Paused mode with the flag set keeps the
\* frames of the buffer in place, reuses the capture task, and its cycle
\* appends exactly one frame and returns the session to Paused.
C28_OneMoreFrame ==
    /\ StepCall =>
          /\ timer # << >>
          /\ fbf
          /\ Len(mwFrames) >= Len(rcall[1].buffer)
          /\ SubSeq(mwFrames, 1, Len(rcall[1].buffer)) = rcall[1].buffer
    /\ StepOver =>
          /\ Len(mwFrames) = Len(rcall[1].buffer) + 1
          /\ nextId = rcall[1].grabs + 1
          /\ mode = "paused"

\* the part of C28 that does not count frames: buffer kept, task reused,
\* session back in Paused with the flag set
C28_BufferKept ==
    /\ StepCall =>
          /\ timer # << >>
          /\ fbf
          /\ Len(mwFrames) >= Len(rcall[1].buffer)
          /\ SubSeq(mwFrames, 1, Len(rcall[1].buffer)) = rcall[1].buffer
    /\ StepOver => mode = "paused"

\* a step whose cycle captured two frames
C28_TwoFrames ==
    /\ StepOver
    /\ rcall[1].buffer # << >>
    /\ Len(mwFrames) = Len(rcall[1].buffer) + 2

\* a step whose cycle captured no frame
C28_NoFrame ==
    /\ StepOver
    /\ rcall[1].buffer # << >>
    /\ mwFrames = rcall[1].buffer
    /\ nextId = rcall[1].grabs

\* the last call was resume() in the Paused mode with the frame-by-frame
\* flag set
ResumedFromStepping ==
    /\ rcall # << >>
    /\ rcall[1].op = "resume"
    /\ "from" \in DOMAIN rcall[1]
    /\ rcall[1].from = "paused"
    /\ rcall[1].flag

\* C29: resume() in the Paused mode with the frame-by-frame flag set clears
\* the flag and enters Recording, and the capture stays unpaused from then
\* on: a _pause_after_single_frame callback left over from an earlier step
\* fires without effect.
C29_ResumeLeavesStepping ==
    ResumedFromStepping =>
        /\ mode = "recording"
        /\ ~fbf
        /\ timer # << >>
        /\ ~timer[1].is_paused

\* C29 witness: a pause callback was pending when resume() was called, it has
\* fired since, and the capture has gone on to grab a frame
C29_Witness ==
    /\ ResumedFromStepping
    /\ rcall[1].pending > 0
    /\ shots.pause_after_single_frame = 0
    /\ mode = "recording"
    /\ ~timer[1].is_paused
    /\ timer[1].tpc = "grab"

\* C30: in the Editing mode, between the handlers of the main thread, the
\* buffer holds a frame and there is no capture task, so that clear asks for
\* the confirmation and is never refused; answered Yes it leaves the buffer
\* empty, the mode Ready and the frame-by-frame flag cleared; answered No it
\* leaves the buffer, the mode, the flag and the capture task as they were.
C30_ClearFromEditing ==
    /\ []((mode = "editing" /\ mainPc = "idle") => (mwFrames # << >> /\ timer = << >>))
    /\ [][(MainWindow_clear_frames /\ mode = "editing") =>
            IF rcall'[1].reply = "Yes"
            THEN /\ mwFrames' = << >>
                 /\ mode' = "ready"
                 /\ ~fbf'
                 /\ timer' = << >>
            ELSE UNCHANGED <<mwFrames, mode, fbf, timer, rangeSlider>>]_vars

\* C30 witness: the confirmation was declined in the Editing mode: the
\* session is still Editing with its frames
C30_Witness ==
    /\ rcall = <<[op |-> "clear_frames", from |-> "editing", reply |-> "No"]>>
    /\ mode = "editing"
    /\ Len(mwFrames) > 1

\* the clear was confirmed in the Editing mode
C30_Cleared ==
    /\ rcall = <<[op |-> "clear_frames", from |-> "editing", reply |-> "Yes"]>>
    /\ mode = "ready"
    /\ mwFrames = << >>
    /\ ~fbf


\* stop has returned and no session has begun since: the mode is Editing or
\* Ready, the main thread is between two handlers and there is no capture task
Stopped ==
    /\ mode \in {"editing", "ready"}
    /\ mainPc = "idle"
    /\ timer = << >>

\* C31: no frame is appended to the frame buffer once stop has returned:
\* while the mode is Editing or Ready and no capture task exists, no step
\* makes the buffer longer, whatever the capture thread emitted before it
\* ended.
C31_NoWriterAfterStop ==
    [][Stopped => Len(mwFrames') <= Len(mwFrames)]_vars

\* the buffer of an ended session holds a frame although stop returned with
\* an empty buffer
C31_AppendedAfterStop ==
    /\ rcall # << >>
    /\ rcall[1].op = "stop"
    /\ Stopped
    /\ mode = "ready"
    /\ Len(mwFrames) = 1
    /\ pendingFrames = << >>

\* this step is a single-shot callback scheduled before the last return of
\* stop
StaleCallback ==
    \/ /\ RecordingManager_record_single_frame
       /\ shots.stale.record_single_frame > 0
    \/ /\ RecordingManager_pause_after_single_frame
       /\ shots.stale.pause_after_single_frame > 0

\* C32: a record_single_frame or _pause_after_single_frame callback that
\* fires after stop has run changes neither the mode nor the paused flag of
\* the capture task, also when a new session has begun before it fires.
C32_StaleCallbackInert ==
    [][StaleCallback => UNCHANGED <<mode, timer>>]_vars

\* a stale callback that fires while no session runs does nothing
C32_InertWhileStopped ==
    [][(StaleCallback /\ Stopped) => UNCHANGED <<mode, timer, fbf, mwFrames>>]_vars

\* the detector of the save refers to img: reference image and both hashes
RefersTo(d, img) ==
    /\ d.last_processed_image = <<img>>
    /\ d.last_frame_hash = <<calculate_image_hash(img)>>
    /\ d.last_structural_hash = <<calculate_structural_hash(img, numpy)>>

\* the detector has no reference yet
NoReference(d) ==
    /\ d.last_processed_image = << >>
    /\ d.last_frame_hash = << >>
    /\ d.last_structural_hash = << >>

\* between the iterations of _process_frames with a detector
BetweenIterations ==
    /\ pc \in {"poll", "final_update", "after_process"}
    /\ det # << >>

\* C33: with similarity skipping enabled, after every iteration of
\* _process_frames the reference image of the detector is the most recently
\* kept processed frame and the fast hash and the structural hash are those
\* of that image (no reference at all before the first kept frame); an
\* iteration that skips its frame leaves the detector as it was.
C33_ReferenceIsLastKept ==
    /\ [](BetweenIterations =>
            IF processed_images = << >> THEN NoReference(det[1])
            ELSE RefersTo(det[1], processed_images[Len(processed_images)]))
    /\ [][(GifSaver_process_frame /\ skipped_count' > skipped_count) =>
            (det' = det /\ processed_images' = processed_images)]_vars

\* C33 witness: the second frame was skipped and the reference is still the
\* first, kept, frame
C33_Witness ==
    /\ pc = "final_update"
    /\ det # << >>
    /\ idx = 2
    /\ skipped_count = 1
    /\ Len(processed_images) = 1
    /\ RefersTo(det[1], Processed(1))

\* two frames were kept and the reference is the second
C33_ReferenceMoved ==
    /\ pc = "final_update"
    /\ det # << >>
    /\ Len(processed_images) = 2
    /\ processed_images[1] # processed_images[2]
    /\ RefersTo(det[1], processed_images[2])
    /\ ~RefersTo(det[1], processed_images[1])

\* _process_frames is under way or has returned its list: the loop has not
\* been left by a cancellation or an exception
ProcessingUndisturbed ==
    /\ SaveStarted
    /\ \/ pc \in {"poll", "process", "final_update"}
       \/ (pc = "after_process" /\ procRet # << >>)

\* C34: in a run of _process_frames on a non-empty input that is neither
\* cancelled nor ended by an error, at every point the frames kept and the
\* frames skipped add up to the frames examined, from the first iteration on
\* the first kept frame is the processed form of input frame 0, and the list
\* returned holds at least one frame; with and without the detector and for
\* every threshold.
C34_FirstFrameKept ==
    ProcessingUndisturbed =>
        /\ Len(processed_images) + skipped_count = idx
        /\ idx >= 1 => (processed_images # << >> /\ processed_images[1] = Processed(1))
        /\ procRet # << >> =>
              (idx = Len(frames) /\ procRet[1] = processed_images /\ Len(procRet[1]) >= 1)

\* C34 witness: _process_frames returned after skipping every frame but the
\* first, under the threshold 0
C34_Witness ==
    /\ ProcessingUndisturbed
    /\ procRet # << >>
    /\ det # << >>
    /\ det[1].threshold = 0
    /\ Len(frames) = 2
    /\ skipped_count = 1
    /\ procRet[1] = <<Processed(1)>>

\* this step creates a capture task: start, or start_frame_by_frame up to
\* timer.start()
TaskCreated ==
    \/ (RecordingManager_start /\ mode' = "recording")
    \/ (RecordingManager_start_frame_by_frame /\ mainPc' = "fbf_started")

\* C35: between the handlers of the main thread a capture task is referenced
\* exactly when the mode is Recording or Paused; a capture task is created
\* only when none is referenced, and a reference is dropped only when the
\* thread has ended, so that at most one capture thread runs.
C35_OneCaptureTask ==
    /\ []((mainPc = "idle") => (timer # << >> <=> mode \in {"recording", "paused"}))
    /\ [][TaskCreated => timer = << >>]_vars
    /\ [][(timer' = << >> /\ timer # << >>) => timer[1].tpc = "finished"]_vars

\* a clear answered Yes has left the Ready mode with a capture task that was
\* created while the question was open
C35_TaskInReady ==
    /\ rcall # << >>
    /\ rcall[1].op = "clear_frames"
    /\ rcall[1].from = "editing"
    /\ rcall[1].reply = "Yes"
    /\ mode = "ready"
    /\ mainPc = "idle"
    /\ question = << >>
    /\ timer # << >>
    /\ timer[1].tpc # "finished"

\* C36: between the handlers of the main thread the mode is Editing only if
\* the frame buffer is non-empty: stop enters Editing only with a frame in
\* the buffer, a deletion in the preview leaves at least one frame, and a
\* clear that empties the buffer leaves Editing for Ready.
C36_EditingHasFrames ==
    /\ []((mode = "editing" /\ mainPc = "idle") => (mwFrames # << >> /\ pvFrames # << >>))
    /\ [][(mode # "editing" /\ mode' = "editing") => (StopReturnStep /\ mwFrames' # << >>)]_vars
    /\ [][PreviewWidget_delete_current_frame =>
            (mode' = "editing" /\ Len(mwFrames') >= 1 /\ Len(pvFrames') >= Len(pvFrames) - 1)]_vars
    /\ [][(mode = "editing" /\ mwFrames # << >> /\ mwFrames' = << >>) => mode' = "ready"]_vars

\* C36 witness: the Delete button was pressed with one frame left and the
\* frame is still there, in the Editing mode
C36_Witness ==
    /\ rcall # << >>
    /\ rcall[1].op = "delete_current_frame"
    /\ rcall[1].had = 1
    /\ mode = "editing"
    /\ Len(mwFrames) >= 1
    /\ Len(pvFrames) = 1

\* a frame was deleted from a recording of three and two are left
C36_Deleted ==
    /\ rcall # << >>
    /\ rcall[1].op = "delete_current_frame"
    /\ rcall[1].had = 3
    /\ mode = "editing"
    /\ Len(mwFrames) = 2
    /\ mwFrames = pvFrames

\* C37: after any sequence of operations of the range slider,
\* minimum <= start_value <= end_value <= maximum.
C37_RangeOrdered ==
    /\ rangeSlider.minimum <= rangeSlider.start_value
    /\ rangeSlider.start_value <= rangeSlider.end_value
    /\ rangeSlider.end_value <= rangeSlider.maximum

\* both values stay within minimum..maximum
C37_RangeWithinBounds ==
    /\ rangeSlider.minimum <= rangeSlider.start_value
    /\ rangeSlider.start_value <= rangeSlider.maximum
    /\ rangeSlider.minimum <= rangeSlider.end_value
    /\ rangeSlider.end_value <= rangeSlider.maximum

\* a save was asked for with the end of the range before its start and was
\* refused for want of frames
C37_InvertedRangeSaved ==
    /\ saveReq # << >>
    /\ "warning" \in DOMAIN saveReq[1]
    /\ saveReq[1].start > saveReq[1].end
    /\ Len(mwFrames) > saveReq[1].start

\* thread t is inside is_running or get_running_processes, at its call of _cleanup_process
InQuery(t) == callers[t].pc \in {"is_running_cleanup", "get_running_cleanup"}

\* thread t waits for the registry lock that it holds itself
SelfBlocked(t) == InQuery(t) /\ lock = <<t>>

\* C38: is_running and get_running_processes always return and never block for ever on
\* the registry lock: no thread inside one of them waits for a lock it already holds.
C38_QueriesReturn == \A t \in Threads: ~SelfBlocked(t)

\* a thread that waits for the lock it holds waits in every later state, and the lock is
\* never free again
C38_BlockedForEver ==
    [][\A t \in Threads: SelfBlocked(t) => (SelfBlocked(t)' /\ lock' = <<t>>)]_vars

\* a thread other than the blocked one is stopped at the lock as well
C38_OthersBlocked ==
    \E t, u \in Threads: SelfBlocked(t) /\ u # t /\ callers[u].pc \in {"cleanup", "register"}

\* no two processes that still run were started under the same execution id
UniqueRunning ==
    \A p, q \in DOMAIN processes:
        (p # q /\ poll(p) = << >> /\ poll(q) = << >>)
            => processes[p].execution_id # processes[q].execution_id

\* a registered process is not replaced by another one, and it is removed only when it
\* has ended
Undisturbed ==
    \A id \in ExecutionIds:
        (running_processes[id] # << >> /\ running_processes'[id] # running_processes[id])
            => (running_processes'[id] = << >> /\ poll(running_processes[id][1]) # << >>)

\* a synchronous execute that ends leaves its id out of the registry
SyncCleansUp ==
    \A t \in Threads:
        (/\ callers[t].pc \notin {"idle", "is_running_cleanup", "get_running_cleanup"}
         /\ callers'[t].pc = "idle"
         /\ ~callers[t].call[1].async_execution)
            => running_processes'[callers[t].call[1].execution_id] = << >>

\* C39: execution ids are unique among running processes, an execute never disturbs a
\* registered process, with concurrent calls as well, and a synchronous execute that
\* returns or raises leaves its id out of running_processes.
C39_UniqueIds == []UniqueRunning /\ [][Undisturbed /\ SyncCleansUp]_vars

\* every synchronous execute that ends has removed its id
C39_SyncCleansUp == [][SyncCleansUp]_vars

\* two processes run under one id and the registry holds the second
C39_TwoUnderOneId ==
    \E p, q \in DOMAIN processes:
        /\ p < q /\ poll(p) = << >> /\ poll(q) = << >>
        /\ processes[p].execution_id = processes[q].execution_id
        /\ running_processes[processes[q].execution_id] = <<q>>


====
